---- MODULE Spec2Model ----
(***************************************************************************)
(* Auto-Docker: stack detection, prompt/response pipeline, template        *)
(* fallback and the structured-chain retry loop.                           *)
(*                                                                         *)
(* Text is modelled as a sequence of tokens (a token is a chunk of         *)
(* characters: a keyword, a fence marker, a newline, a word).  String      *)
(* operations of the source (match, trim, includes) are computed on the    *)
(* token sequence the way the source computes them on characters.          *)
(***************************************************************************)
EXTENDS Integers, Sequences, FiniteSets, TLC

VARIABLES
    \* --- LangChainDockerGenerator.generateDockerFiles ---
    lcPc,           \* "idle" | "loop" | "await" | "delay" | "returned" | "threw"
    lcDetection,    \* [frontend, backend] frameworks of the StackDetection
    projectType,    \* the project type computed at the top of the method
    attempts,       \* local `attempts`
    result,         \* local `result`: <<>> is undefined, <<obj>> the decoded object
    lcInvocations,  \* number of chain.invoke calls issued
    lcDelays,       \* the setTimeout delays started, in order
    lcErrors,       \* the errors caught by the inner catch, in order
    lcResponses,    \* the contents chain.invoke resolved with, in order
    lcReturn,       \* the returned GeneratedFiles: <<>> or <<value>>
    lcThrown,       \* the error thrown to the caller: <<>> or <<prefix, cause>>
    \* --- ProjectAnalyzer.analyzeProject ---
    dtPc,           \* "idle" | "ready" | "done"
    dtFiles,        \* the project file list (getProjectFiles)
    dtInfo,         \* the manifests read (analyzePackageFiles)
    dtStructure,    \* the returned ProjectStructure: <<>> or <<value>>
    \* --- the template fallback generators of LLMService ---
    fbStructure,    \* the ProjectStructure given to the generators
    fbSlot,         \* the generator applied last ("" before the first)
    fbText,         \* the text it returned
    \* --- LLMService.parseResponse ---
    prPc,           \* "idle" | "ready" | "done"
    prBlocks,       \* the fenced blocks the raw response is made of, in order
    prSep,          \* the text between two consecutive blocks
    prResponse,     \* the raw response text
    prStructure,    \* the ProjectStructure
    prResult,       \* the returned DockerFiles: <<>> or <<value>>
    \* --- LLMService.generateDockerFiles (simple mode) ---
    svcPc,          \* "idle" | "ready" | "calling" | "returned" | "threw"
    apiProvider,    \* setting autoDocker.apiProvider
    openaiClient,   \* TRUE when the OpenAI client was constructed
    geminiClient,   \* TRUE when the Gemini client was constructed
    svcStructure,   \* the ProjectStructure
    svcCalls,       \* the provider calls issued by this invocation, in order
    svcReturn,      \* the returned DockerFiles: <<>> or <<value>>
    svcThrown,      \* the error thrown to the caller: <<>> or <<prefix, cause>>
    \* --- the analyzeProject command: validation, generation, preview, write ---
    runPc,          \* position of the run (see the Run actions)
    settings,       \* the autoDocker configuration section
    skipPreview,    \* the argument of analyzeProject
    workspaceOpen,  \* TRUE when a workspace folder is open
    runWorkspace,   \* the manifests of the workspace
    runStructure,   \* the ProjectStructure of this run: <<>> or <<value>>
    validations,    \* calls of validateApiConfiguration in this run
    runCalls,       \* the provider calls of this run, in order, with their outcome
    previews,       \* preview panels opened in this run
    dockerFiles,    \* the DockerFiles generateDockerFiles returned: <<>> or <<value>>
    messages,       \* the messages shown to the user in this run, in order
    disk,           \* names of the files present in the output directory
    filesToWrite,   \* the list given to writeFiles
    writeAttempts,  \* the fs.writeFile calls of this run: [name, ok], in order
    confirmed,      \* local `confirmed` of analyzeProject: "no", or what set it true
    existingFiles,  \* local `existingFiles` of writeDockerFiles
    newFiles,       \* local `newFiles` of writeDockerFiles
    overwriteChoice, \* the answer of showOverwriteDialog ("" before it is given)
    \* --- FileManager.showPreview ---
    pvPc,           \* "idle" | "waiting" (panel open, promise returned) | "failed"
    resolved,       \* local `resolved` of the promise executor
    panelDisposed,  \* TRUE once the panel is disposed
    timeoutPending, \* TRUE while the 5-minute timer is armed
    disposeTimers,  \* armed 100 ms timers of the delayed panel.dispose()
    pvResolveCalls, \* the values resolve() was called with, in order
    pvEvents,       \* the callbacks that ran, in order
    pvReturn,       \* what showPreview settled to: <<>> or <<boolean>>
    \* --- the included_files template variable of the structured chain ---
    trPc,           \* "idle" | "ready" | "done"
    trFile,         \* a sampled file: [path, content], the content one token a character
    trEntry,        \* its entry in included_files (<<>> before it is built)
    \* --- the analyzed descriptor handed to generateFallbackDockerfile ---
    dtDockerfile,   \* the fallback Dockerfile of dtStructure: <<>> or <<text>>
    \* --- the configureApiKeys command and the provider calls after it ---
    cfgRuns,        \* completed runs of configureApiKeys
    cfgCalls        \* provider calls issued: [api, model], in order

lcVars == <<lcPc, lcDetection, projectType, attempts, result, lcInvocations,
            lcDelays, lcErrors, lcResponses, lcReturn, lcThrown>>

dtVars == <<dtPc, dtFiles, dtInfo, dtStructure>>

fbVars == <<fbStructure, fbSlot, fbText>>

prVars == <<prPc, prBlocks, prSep, prResponse, prStructure, prResult>>

svcVars == <<svcPc, apiProvider, openaiClient, geminiClient, svcStructure, svcCalls,
             svcReturn, svcThrown>>

runVars == <<runPc, settings, skipPreview, workspaceOpen, runWorkspace, runStructure,
             validations, runCalls, previews, dockerFiles, messages, disk,
             filesToWrite, writeAttempts, confirmed, existingFiles, newFiles,
             overwriteChoice>>

pvVars == <<pvPc, resolved, panelDisposed, timeoutPending, disposeTimers,
            pvResolveCalls, pvEvents, pvReturn>>

trVars == <<trPc, trFile, trEntry>>

dfVars == <<dtDockerfile>>

cfgVars == <<cfgRuns, cfgCalls>>

vars == <<lcVars, dtVars, fbVars, prVars, svcVars, runVars, pvVars, trVars, dfVars, cfgVars>>

\* The variables each component leaves alone
lcOthers == <<dtVars, fbVars, prVars, svcVars, runVars, pvVars, trVars, dfVars, cfgVars>>
dtOthers == <<lcVars, fbVars, prVars, svcVars, runVars, pvVars, trVars, dfVars, cfgVars>>
fbOthers == <<lcVars, dtVars, prVars, svcVars, runVars, pvVars, trVars, dfVars, cfgVars>>
prOthers == <<lcVars, dtVars, fbVars, svcVars, runVars, pvVars, trVars, dfVars, cfgVars>>
svcOthers == <<lcVars, dtVars, fbVars, prVars, runVars, pvVars, trVars, dfVars, cfgVars>>
runOthers == <<lcVars, dtVars, fbVars, prVars, svcVars, pvVars, trVars, dfVars, cfgVars>>
pvOthers == <<lcVars, dtVars, fbVars, prVars, svcVars, runVars, trVars, dfVars, cfgVars>>
trOthers == <<lcVars, dtVars, fbVars, prVars, svcVars, runVars, pvVars, dfVars, cfgVars>>
dfOthers == <<lcVars, dtVars, fbVars, prVars, svcVars, runVars, pvVars, trVars, cfgVars>>
cfgOthers == <<lcVars, dtVars, fbVars, prVars, svcVars, runVars, pvVars, trVars, dfVars>>

-----------------------------------------------------------------------------
(* Bounds of the model *)

\* entries of dependencies plus devDependencies in a package.json
MaxDeps == 2
\* packages listed in a requirements.txt
MaxReqLines == 2
\* files in the project file list
MaxFiles == 2
\* fenced blocks in a raw response
MaxBlocks == 4
\* validations in one run of the command (the user may reconfigure again and again)
MaxValidations == 2
\* webview messages delivered to one preview panel
MaxMessages == 3
\* characters of a sampled file
MaxContentLen == 1002
\* runs of the configureApiKeys command
MaxConfigureRuns == 3
\* provider calls issued after them
MaxProviderCalls == 2

-----------------------------------------------------------------------------
(* Text: tokens and the string operations of the source *)

\* the three-backtick fence marker
FENCE == "<fence>"
NL == "\n"
SP == " "
\* the undefined value of JavaScript, for optional strings and missing object keys
UNDEFINED == "undefined"

\* String.prototype.includes on token sequences
Includes(s, kw) ==
    \E i \in 1..(Len(s) - Len(kw) + 1) : SubSeq(s, i, i + Len(kw) - 1) = kw

IsWs(t) == t \in {NL, SP}

\* String.prototype.trim: strips leading and trailing whitespace
Trim(s) ==
    LET keep == {i \in 1..Len(s) : ~IsWs(s[i])}
    IN  IF keep = {} THEN <<>>
        ELSE LET a == CHOOSE i \in keep : \A j \in keep : i <= j
                 b == CHOOSE i \in keep : \A j \in keep : j <= i
             IN  SubSeq(s, a, b)

-----------------------------------------------------------------------------
(* ProjectAnalyzer: manifests, file list and detectProjectType *)

\* A truthy optional string
Truthy(x) == x # UNDEFINED /\ x # ""

\* String.prototype.toLowerCase, token by token
LowerToken(t) ==
    CASE t = "Django" -> "django"
      [] t = "Flask" -> "flask"
      [] t = "FastAPI" -> "fastapi"
      [] OTHER -> t

ToLowerCase(s) == [i \in 1..Len(s) |-> LowerToken(s[i])]

\* Sequences over S of length at most n
RECURSIVE SeqsUpTo(_, _)
SeqsUpTo(S, n) ==
    IF n = 0 THEN {<<>>}
    ELSE LET shorter == SeqsUpTo(S, n - 1)
         IN  shorter \cup {Append(q, x) : q \in shorter, x \in S}

SubsetsUpTo(S, n) == {T \in SUBSET S : Cardinality(T) <= n}

\* Dependency names a package.json of the model may list
DepNames ==
    {"react", "vue", "@angular/core", "next", "nuxt", "express", "@nestjs/core",
     "pg", "mongoose"}
DevDepNames == {"@types/react"}

\* The parsed package.json values: <<>> when the file is absent or unreadable
PackageJsons ==
    {<<>>} \cup
    { <<[dependencies |-> d, devDependencies |-> v]>> :
        d \in SubsetsUpTo(DepNames, MaxDeps), v \in SUBSET DevDepNames }

\* requirements.txt contents, one token per listed package ("" when absent)
ReqNames == {"Django", "flask", "fastapi"}
RequirementsTxts == SeqsUpTo(ReqNames, MaxReqLines)

PomXmls == {<<>>, <<"spring-boot">>, <<"junit">>}
GoMods == {<<>>, <<"module app">>}

PackageInfos ==
    { [packageJson |-> pj, requirementsTxt |-> rq, pomXml |-> pm, goMod |-> gm] :
        pj \in { p \in PackageJsons :
                   p = <<>> \/ Cardinality(p[1].dependencies)
                               + Cardinality(p[1].devDependencies) <= MaxDeps },
        rq \in RequirementsTxts, pm \in PomXmls, gm \in GoMods }

\* Relative paths the file list may hold
FileNames == {"public/index.html", "src/index.js", "server.js", "README.md"}
FileLists == SubsetsUpTo(FileNames, MaxFiles)

\* f.startsWith('public/') || f.startsWith('static/')
InPublicFolder(f) == f \in {"public/index.html"}
\* f.startsWith('src/')
InSrcFolder(f) == f \in {"src/index.js"}
\* f.includes('server') || f.includes('api') || f.includes('routes')
IsServerFile(f) == f \in {"server.js"}

\* { ...pkg.dependencies, ...pkg.devDependencies }
MergedDeps(pkg) == pkg.dependencies \cup pkg.devDependencies

DetectFrontend(deps) ==
    IF "react" \in deps \/ "@types/react" \in deps THEN "react"
    ELSE IF "vue" \in deps \/ "@vue/cli" \in deps THEN "vue"
    ELSE IF "@angular/core" \in deps THEN "angular"
    ELSE IF "next" \in deps THEN "nextjs"
    ELSE IF "nuxt" \in deps THEN "nuxt"
    ELSE UNDEFINED

\* the type a frontend branch sets directly
FrontendType(deps) ==
    IF DetectFrontend(deps) \in {"nextjs", "nuxt"} THEN "fullstack" ELSE "unknown"

DetectNodeBackend(deps) ==
    IF "express" \in deps THEN "express"
    ELSE IF "fastify" \in deps THEN "fastify"
    ELSE IF "nestjs" \in deps \/ "@nestjs/core" \in deps THEN "nestjs"
    ELSE UNDEFINED

DetectDatabase(deps) ==
    IF "mongoose" \in deps \/ "mongodb" \in deps THEN "mongodb"
    ELSE IF "pg" \in deps \/ "postgresql" \in deps THEN "postgresql"
    ELSE IF "mysql" \in deps \/ "mysql2" \in deps THEN "mysql"
    ELSE UNDEFINED

DetectPythonBackend(requirementsTxt) ==
    LET requirements == ToLowerCase(requirementsTxt)
    IN  IF Includes(requirements, <<"django">>) THEN "django"
        ELSE IF Includes(requirements, <<"flask">>) THEN "flask"
        ELSE IF Includes(requirements, <<"fastapi">>) THEN "fastapi"
        ELSE UNDEFINED

\* The type inferred from the file structure when nothing else classified
InferFromFiles(files) ==
    LET hasPublicFolder == \E f \in files : InPublicFolder(f)
        hasSrcFolder == \E f \in files : InSrcFolder(f)
        hasServerFiles == \E f \in files : IsServerFile(f)
    IN  IF hasPublicFolder /\ hasSrcFolder THEN "frontend"
        ELSE IF hasServerFiles THEN "backend"
        ELSE "static"

detectProjectType(files, packageInfo) ==
    LET hasPkg == packageInfo.packageJson # <<>>
        deps == IF hasPkg THEN MergedDeps(packageInfo.packageJson[1]) ELSE {}
        \* after the package.json block
        frontend == IF hasPkg THEN DetectFrontend(deps) ELSE UNDEFINED
        type1 == IF hasPkg THEN FrontendType(deps) ELSE "unknown"
        backend1 == IF hasPkg THEN DetectNodeBackend(deps) ELSE UNDEFINED
        database == IF hasPkg THEN DetectDatabase(deps) ELSE UNDEFINED
        \* after the requirements.txt block
        python == IF packageInfo.requirementsTxt # <<>>
                  THEN DetectPythonBackend(packageInfo.requirementsTxt) ELSE UNDEFINED
        backend2 == IF python # UNDEFINED THEN python ELSE backend1
        type2 == IF python # UNDEFINED THEN "backend" ELSE type1
        \* after the pom.xml block
        spring == packageInfo.pomXml # <<>>
                  /\ Includes(ToLowerCase(packageInfo.pomXml), <<"spring-boot">>)
        backend3 == IF spring THEN "spring-boot" ELSE backend2
        type3 == IF spring THEN "backend" ELSE type2
        \* after the go.mod block
        go == packageInfo.goMod # <<>>
        backend == IF go THEN "go" ELSE backend3
        type4 == IF go THEN "backend" ELSE type3
        \* overall project type
        type == IF type4 # "unknown" THEN type4
                ELSE IF Truthy(frontend) /\ Truthy(backend) THEN "fullstack"
                ELSE IF Truthy(frontend) THEN "frontend"
                ELSE IF Truthy(backend) THEN "backend"
                ELSE InferFromFiles(files)
    IN  [type |-> type, frontend |-> frontend, backend |-> backend, database |-> database]

shouldUseMultiStage(pt) ==
    \/ pt.type = "fullstack"
    \/ pt.frontend = "react"
    \/ pt.frontend = "angular"
    \/ pt.frontend = "vue"
    \/ pt.backend = "nestjs"
    \/ pt.backend = "spring-boot"

\* The ProjectStructure analyzeProject returns (the description text, used
\* only for display, is left out; hasEnvFile is never set by the analyzer)
BuildStructure(files, packageInfo) ==
    LET pt == detectProjectType(files, packageInfo)
    IN  [projectType |-> pt.type,
         frontend |-> pt.frontend,
         backend |-> pt.backend,
         database |-> pt.database,
         files |-> files,
         dependencies |-> packageInfo,
         hasMultiStage |-> shouldUseMultiStage(pt),
         hasEnvFile |-> FALSE]

EmptyInfo == [packageJson |-> <<>>, requirementsTxt |-> <<>>, pomXml |-> <<>>, goMod |-> <<>>]

\* The ProjectStructure of an empty workspace
EmptyStructure == BuildStructure({}, EmptyInfo)

\* ProjectAnalyzer.analyzeProject
AnalyzeProject ==
    /\ dtPc = "ready"
    /\ dtStructure' = <<BuildStructure(dtFiles, dtInfo)>>
    /\ dtPc' = "done"
    /\ UNCHANGED <<dtFiles, dtInfo>>
    /\ UNCHANGED dtOthers


-----------------------------------------------------------------------------
(* LLMService: build directory and the template fallback generators *)

\* a comparison with 'vite' in place of the substring test
IncludesVite_ExactName(frontend) == frontend = "vite"
\* frontend.includes('vite'), over the framework names of the model
IncludesVite(frontend) == frontend \in {"vite", "react-vite"}

getBuildDirectory_ReactDist(projectStructure) == "dist"
getBuildDirectory(projectStructure) ==
    IF Truthy(projectStructure.frontend) /\ IncludesVite(projectStructure.frontend) THEN "dist"
    ELSE IF projectStructure.frontend = "react" THEN "build"
    ELSE IF projectStructure.frontend = "angular" THEN "dist"
    ELSE IF projectStructure.frontend = "vue" THEN "dist"
    ELSE IF projectStructure.frontend = "nextjs" THEN ".next"
    ELSE "dist"

\* The two-stage build definition of a Node project with a frontend
FrontendDockerfile(buildDir) ==
    <<"FROM", " node:18-alpine AS build", NL,
      "WORKDIR /app", NL,
      "COPY package*.json ./", NL,
      "RUN npm ci", NL,
      "COPY . .", NL,
      "RUN npm run build", NL,
      NL,
      "FROM", " nginx:alpine", NL,
      "COPY --from=build /app/", buildDir, " /usr/share/nginx/html", NL,
      "EXPOSE ", "80", NL,
      "CMD [\"nginx\", \"-g\", \"daemon off;\"]">>

NodeDockerfile ==
    <<"FROM", " node:18-alpine", NL,
      "WORKDIR /app", NL,
      "COPY package*.json ./", NL,
      "RUN npm ci --only=production", NL,
      "COPY . .", NL,
      "EXPOSE ", "3000", NL,
      "CMD [\"npm\", \"start\"]">>

FlaskDockerfile ==
    <<"FROM", " python:3.11-slim", NL, NL,
      "WORKDIR /app", NL, NL,
      "# Install system dependencies", NL,
      "RUN apt-get update && apt-get install -y \\", NL,
      "    gcc \\", NL,
      "    && rm -rf /var/lib/apt/lists/*", NL, NL,
      "# Copy requirements and install Python dependencies", NL,
      "COPY requirements.txt .", NL,
      "RUN pip install --no-cache-dir -r requirements.txt \\", NL,
      "    && pip install --no-cache-dir ", "gunicorn", NL, NL,
      "# Copy application code", NL,
      "COPY . .", NL, NL,
      "# Create non-root user", NL,
      "RUN useradd --create-home --shell /bin/bash appuser \\", NL,
      "    && chown -R appuser:appuser /app", NL,
      "USER appuser", NL, NL,
      "EXPOSE ", "5000", NL, NL,
      "# Use gunicorn for production", NL,
      "CMD [\"gunicorn\", \"--bind\", \"0.0.0.0:5000\", \"--workers\", \"4\", \"app:app\"]">>

DjangoDockerfile ==
    <<"FROM", " python:3.11-slim", NL, NL,
      "WORKDIR /app", NL, NL,
      "# Install system dependencies", NL,
      "RUN apt-get update && apt-get install -y \\", NL,
      "    gcc \\", NL,
      "    postgresql-client \\", NL,
      "    && rm -rf /var/lib/apt/lists/*", NL, NL,
      "# Copy requirements and install dependencies", NL,
      "COPY requirements.txt .", NL,
      "RUN pip install --no-cache-dir -r requirements.txt \\", NL,
      "    && pip install --no-cache-dir ", "gunicorn", NL, NL,
      "# Copy application code", NL,
      "COPY . .", NL, NL,
      "# Run migrations and collect static files", NL,
      "RUN python manage.py ", "collectstatic", " --noinput || true", NL, NL,
      "EXPOSE ", "8000", NL, NL,
      "CMD [\"gunicorn\", \"--bind\", \"0.0.0.0:8000\", \"--workers\", \"4\", \"wsgi:application\"]">>

FastAPIDockerfile ==
    <<"FROM", " python:3.11-slim", NL, NL,
      "WORKDIR /app", NL, NL,
      "# Copy requirements and install dependencies", NL,
      "COPY requirements.txt .", NL,
      "RUN pip install --no-cache-dir -r requirements.txt \\", NL,
      "    && pip install --no-cache-dir ", "uvicorn", "[standard]", NL, NL,
      "# Copy application code", NL,
      "COPY . .", NL, NL,
      "EXPOSE ", "8000", NL, NL,
      "CMD [\"uvicorn\", \"main:app\", \"--host\", \"0.0.0.0\", \"--port\", \"8000\"]">>

PythonDockerfile ==
    <<"FROM", " python:3.11-slim", NL,
      "WORKDIR /app", NL,
      "COPY requirements.txt .", NL,
      "RUN pip install --no-cache-dir -r requirements.txt", NL,
      "COPY . .", NL,
      "EXPOSE ", "8000", NL,
      "CMD [\"python\", \"app.py\"]">>

AlpineDockerfile ==
    <<"FROM", " alpine:latest", NL,
      "WORKDIR /app", NL,
      "COPY . .", NL,
      "EXPOSE ", "8080", NL,
      "CMD [\"sh\"]">>

generateFallbackDockerfile_NoBaseImage(projectStructure) ==
    IF projectStructure.dependencies.packageJson # <<>>
    THEN <<"WORKDIR /app", NL, "COPY . .">>
    ELSE AlpineDockerfile
generateFallbackDockerfile(projectStructure) ==
    IF projectStructure.dependencies.packageJson # <<>>
    THEN LET pkg == projectStructure.dependencies.packageJson[1]
             hasReact == "react" \in pkg.dependencies \/ "react" \in pkg.devDependencies
             buildDir == getBuildDirectory(projectStructure)
         IN  IF hasReact \/ Truthy(projectStructure.frontend)
             THEN FrontendDockerfile(buildDir)
             ELSE NodeDockerfile
    ELSE IF projectStructure.dependencies.requirementsTxt # <<>>
    THEN LET requirements == ToLowerCase(projectStructure.dependencies.requirementsTxt)
             isFlask == Includes(requirements, <<"flask">>)
             isDjango == Includes(requirements, <<"django">>)
             isFastAPI == Includes(requirements, <<"fastapi">>)
         IN  IF isFlask THEN FlaskDockerfile
             ELSE IF isDjango THEN DjangoDockerfile
             ELSE IF isFastAPI THEN FastAPIDockerfile
             ELSE PythonDockerfile
    ELSE AlpineDockerfile

\* getDatabaseImage with the default arm taken for every database
getDatabaseImage_AlwaysPostgres(database) == "postgres:15-alpine"
getDatabaseImage(database) ==
    CASE database = "postgresql" -> "postgres:15-alpine"
      [] database = "mysql" -> "mysql:8.0"
      [] database = "mongodb" -> "mongo:6.0"
      [] OTHER -> "postgres:15-alpine"

\* The env_file lines of the app service
EnvFileLines(hasEnv) ==
    IF hasEnv THEN <<NL, "    env_file:", NL, "      - .env">> ELSE <<>>

\* The depends_on lines of the app service
DependsOnLines(database) ==
    IF Truthy(database) THEN <<NL, "    depends_on:", NL, "      - ", database>> ELSE <<>>

\* The database service block; `lead` is what separates it from the app block
DatabaseService(database, lead, userLine) ==
    IF Truthy(database)
    THEN lead \o
         <<"  ", database, ":", NL,
           "    image: ", getDatabaseImage(database), NL,
           "    environment:", NL,
           "      POSTGRES_DB: app", NL,
           userLine, NL,
           "      POSTGRES_PASSWORD: pass", NL,
           "    volumes:", NL,
           "      - db:/var/lib/postgresql/data">>
    ELSE <<>>

VolumesBlock(database, lead) ==
    IF Truthy(database) THEN lead \o <<"volumes:", NL, "  db:">> ELSE <<>>

generateFallbackCompose(projectStructure) ==
    LET frontendProxy == \/ projectStructure.frontend = "react"
                         \/ (Truthy(projectStructure.frontend)
                             /\ IncludesVite(projectStructure.frontend))
        appPort == IF frontendProxy THEN "3000"
                   ELSE IF projectStructure.backend = "flask" THEN "5000"
                   ELSE IF projectStructure.backend = "django"
                           \/ projectStructure.backend = "fastapi" THEN "8000"
                   ELSE "3000"
        useNginxProxy == frontendProxy
        hasEnv == projectStructure.hasEnvFile
        database == projectStructure.database
    IN  IF useNginxProxy
        THEN <<"services:", NL,
               "  app:", NL,
               "    build: .", NL,
               "    expose:", NL,
               "      - \"", appPort, "\"">>
             \o EnvFileLines(hasEnv)
             \o DependsOnLines(database)
             \o <<NL, NL,
                  "  nginx:", NL,
                  "    image: nginx:alpine", NL,
                  "    ports:", NL,
                  "      - \"80:80\"", NL,
                  "    volumes:", NL,
                  "      - ./nginx.conf:/etc/nginx/conf.d/default.conf:ro", NL,
                  "    depends_on:", NL,
                  "      - app">>
             \o DatabaseService(database, <<NL, NL>>, "      POSTGRES_USER: user")
             \o VolumesBlock(database, <<NL, NL>>)
        ELSE <<"services:", NL,
               "  app:", NL,
               "    build: .", NL,
               "    ports:", NL,
               "      - \"", appPort, ":", appPort, "\"">>
             \o EnvFileLines(hasEnv)
             \o DependsOnLines(database)
             \o DatabaseService(database, <<NL>>, "      POSTGRES_USER: user  ")
             \o VolumesBlock(database, <<NL>>)

generateFallbackDockerignore ==
    <<"node_modules", NL, ".git", NL, "*.log", NL, ".vscode", NL, ".DS_Store", NL,
      "__pycache__", NL, "*.pyc", NL, "venv", NL, ".pytest_cache", NL, "coverage", NL,
      "dist", NL, "build", NL, "README.md">>

generateFallbackNginx ==
    <<"server {", NL,
      "    listen 80;", NL,
      "    server_name localhost;", NL, NL,
      "    # For reverse proxy to Node.js/React dev server on port 3000", NL,
      "    location / {", NL,
      "        proxy_pass http://", "app", ":", "3000", ";", NL,
      "        proxy_http_version 1.1;", NL,
      "        proxy_set_header Upgrade $http_upgrade;", NL,
      "        proxy_set_header Connection 'upgrade';", NL,
      "        proxy_set_header Host $host;", NL,
      "        proxy_set_header X-Real-IP $remote_addr;", NL,
      "        proxy_set_header X-Forwarded-For $proxy_add_x_forwarded_for;", NL,
      "        proxy_set_header X-Forwarded-Proto $scheme;", NL,
      "        proxy_cache_bypass $http_upgrade;", NL,
      "    }", NL, NL,
      "    # For static assets (if using production build)", NL,
      "    location /static/ {", NL,
      "        alias /usr/share/nginx/html/static/;", NL,
      "        expires 1y;", NL,
      "        add_header Cache-Control \"public, immutable\";", NL,
      "    }", NL, NL,
      "    # Gzip compression", NL,
      "    gzip on;", NL,
      "    gzip_vary on;", NL,
      "    gzip_min_length 1024;", NL,
      "    gzip_types text/plain text/css text/xml text/javascript application/javascript application/json application/xml+rss;", NL,
      "}">>

\* Every combination of the fields the generators read
FbFrontends == {UNDEFINED, "react", "vue", "angular", "nextjs", "nuxt", "vite", "react-vite"}
FbBackends == {UNDEFINED, "express", "flask", "django", "fastapi"}
FbDatabases == {UNDEFINED, "postgresql", "mysql", "mongodb", "redis"}
FbPackageJsons ==
    { <<>>,
      <<[dependencies |-> {}, devDependencies |-> {}]>>,
      <<[dependencies |-> {"react"}, devDependencies |-> {}]>>,
      <<[dependencies |-> {}, devDependencies |-> {"react"}]>>,
      <<[dependencies |-> {"express"}, devDependencies |-> {}]>> }

FbStructures ==
    { [projectType |-> "unknown",
       frontend |-> f,
       backend |-> b,
       database |-> d,
       files |-> {},
       dependencies |-> [packageJson |-> pj, requirementsTxt |-> rq,
                         pomXml |-> <<>>, goMod |-> <<>>],
       hasMultiStage |-> FALSE,
       hasEnvFile |-> e] :
        f \in FbFrontends, b \in FbBackends, d \in FbDatabases, e \in BOOLEAN,
        pj \in FbPackageJsons, rq \in RequirementsTxts }

\* getBuildDirectory
FBBuildDirectory ==
    /\ fbSlot' = "buildDir"
    /\ fbText' = <<getBuildDirectory(fbStructure)>>
    /\ UNCHANGED fbStructure
    /\ UNCHANGED fbOthers

FBDockerfile ==
    /\ fbSlot' = "dockerfile"
    /\ fbText' = generateFallbackDockerfile(fbStructure)
    /\ UNCHANGED fbStructure
    /\ UNCHANGED fbOthers

FBCompose ==
    /\ fbSlot' = "dockerCompose"
    /\ fbText' = generateFallbackCompose(fbStructure)
    /\ UNCHANGED fbStructure
    /\ UNCHANGED fbOthers

FBDockerignore ==
    /\ fbSlot' = "dockerIgnore"
    /\ fbText' = generateFallbackDockerignore
    /\ UNCHANGED fbStructure
    /\ UNCHANGED fbOthers

FBNginx ==
    /\ fbSlot' = "nginxConf"
    /\ fbText' = generateFallbackNginx
    /\ UNCHANGED fbStructure
    /\ UNCHANGED fbOthers

FBNext ==
    \/ FBBuildDirectory
    \/ FBDockerfile
    \/ FBCompose
    \/ FBDockerignore
    \/ FBNginx


-----------------------------------------------------------------------------
(* LLMService.parseResponse: fenced-block extraction and fallback *)

\* Case folding of a fence tag under the i flag
LowerTag(t) ==
    CASE t = "Dockerfile" -> "dockerfile"
      [] t = "YAML" -> "yaml"
      [] t = "Nginx" -> "nginx"
      [] OTHER -> t

\* The fence at position i opens a block with tag `tag` (a token sequence,
\* empty for no tag) followed by a newline
OpensAt(response, i, tag, ignoreCase) ==
    /\ i + Len(tag) + 1 <= Len(response)
    /\ response[i] = FENCE
    /\ \A k \in 1..Len(tag) :
          (IF ignoreCase THEN LowerTag(response[i + k]) ELSE response[i + k]) = tag[k]
    /\ response[i + Len(tag) + 1] = NL

\* Positions j >= from where "\n```" begins
ClosingsFrom(response, from) ==
    {j \in from..(Len(response) - 1) : response[j] = NL /\ response[j + 1] = FENCE}

\* response.match(/```<tag>\n([\s\S]*?)\n```/): the leftmost opening fence with
\* one of the tags for which a closing exists, and the lazy capture up to the
\* first closing.  [matched, capture]
MatchFenced(response, tags, ignoreCase) ==
    LET starts == {i \in 1..Len(response) :
                      \E tag \in tags :
                         /\ OpensAt(response, i, tag, ignoreCase)
                         /\ ClosingsFrom(response, i + Len(tag) + 2) # {}}
    IN  IF starts = {} THEN [matched |-> FALSE, capture |-> <<>>]
        ELSE LET i == CHOOSE x \in starts : \A y \in starts : x <= y
                 tag == CHOOSE t \in tags :
                           /\ OpensAt(response, i, t, ignoreCase)
                           /\ ClosingsFrom(response, i + Len(t) + 2) # {}
                 from == i + Len(tag) + 2
                 closings == ClosingsFrom(response, from)
                 j == CHOOSE x \in closings : \A y \in closings : x <= y
             IN  [matched |-> TRUE, capture |-> SubSeq(response, from, j - 1)]

DockerfileTags == {<<"dockerfile">>}
ComposeTags == {<<"yaml">>, <<"yml">>}
DockerignoreTags == {<<"dockerignore">>, <<"text">>, <<>>}
NginxTags == {<<"nginx">>}

\* A slot is falsy when it is the empty string or undefined
Falsy(text) == text = <<>> \/ text = <<UNDEFINED>>

\* (the response parameter is not read)
fallbackExtraction_SkipsDockerignore(response, res, projectStructure) ==
    [dockerfile |-> IF Falsy(res.dockerfile)
                    THEN generateFallbackDockerfile(projectStructure) ELSE res.dockerfile,
     dockerCompose |-> IF Falsy(res.dockerCompose)
                       THEN generateFallbackCompose(projectStructure) ELSE res.dockerCompose,
     dockerIgnore |-> res.dockerIgnore,
     nginxConf |-> IF Falsy(res.nginxConf) /\ Truthy(projectStructure.frontend)
                   THEN generateFallbackNginx ELSE res.nginxConf]
fallbackExtraction(response, res, projectStructure) ==
    [dockerfile |-> IF Falsy(res.dockerfile)
                    THEN generateFallbackDockerfile(projectStructure) ELSE res.dockerfile,
     dockerCompose |-> IF Falsy(res.dockerCompose)
                       THEN generateFallbackCompose(projectStructure) ELSE res.dockerCompose,
     dockerIgnore |-> IF Falsy(res.dockerIgnore)
                      THEN generateFallbackDockerignore ELSE res.dockerIgnore,
     nginxConf |-> IF Falsy(res.nginxConf) /\ Truthy(projectStructure.frontend)
                   THEN generateFallbackNginx ELSE res.nginxConf]

parseResponse(response, projectStructure) ==
    LET dockerfileMatch == MatchFenced(response, DockerfileTags, TRUE)
        composeMatch == MatchFenced(response, ComposeTags, TRUE)
        dockerignoreMatch == MatchFenced(response, DockerignoreTags, FALSE)
        nginxMatch == MatchFenced(response, NginxTags, TRUE)
        extracted ==
            [dockerfile |-> IF dockerfileMatch.matched
                            THEN Trim(dockerfileMatch.capture) ELSE <<>>,
             dockerCompose |-> IF composeMatch.matched
                               THEN Trim(composeMatch.capture) ELSE <<>>,
             dockerIgnore |-> IF dockerignoreMatch.matched
                              THEN Trim(dockerignoreMatch.capture) ELSE <<>>,
             nginxConf |-> IF nginxMatch.matched
                           THEN Trim(nginxMatch.capture) ELSE <<UNDEFINED>>]
    IN  IF Falsy(extracted.dockerfile) \/ Falsy(extracted.dockerCompose)
           \/ Falsy(extracted.dockerIgnore)
        THEN fallbackExtraction(response, extracted, projectStructure)
        ELSE extracted

\* The fenced blocks a raw response of the model may hold
BlockKinds ==
    { [tag |-> <<"dockerfile">>, content |-> <<"FROM", " node:18-alpine", NL, "CMD", " npm start">>],
      [tag |-> <<"Dockerfile">>, content |-> <<"RUN", " make">>],
      [tag |-> <<"dockerfile">>, content |-> <<>>],
      [tag |-> <<"yaml">>, content |-> <<"services:", NL, "  app:">>],
      [tag |-> <<>>, content |-> <<"node_modules", NL, ".git">>],
      [tag |-> <<"nginx">>, content |-> <<"server {", NL, "}">>] }

\* The text between two blocks: a newline, a blank line, a line of prose
Separators == { <<NL>>, <<NL, NL>>, <<NL, "Next file:", NL>> }

\* ```tag\ncontent\n```
RenderBlock(b) == <<FENCE>> \o b.tag \o <<NL>> \o b.content \o <<NL, FENCE>>

RECURSIVE RenderResponse(_, _)
RenderResponse(blocks, sep) ==
    IF blocks = <<>> THEN <<>>
    ELSE IF Len(blocks) = 1 THEN RenderBlock(blocks[1])
    ELSE RenderBlock(blocks[1]) \o sep \o RenderResponse(Tail(blocks), sep)

\* The workspaces whose ProjectStructure the parser is given
PrWorkspaces ==
    { EmptyInfo,
      [EmptyInfo EXCEPT !.packageJson = <<[dependencies |-> {"react"}, devDependencies |-> {}]>>],
      [EmptyInfo EXCEPT !.packageJson = <<[dependencies |-> {"express", "pg"}, devDependencies |-> {}]>>],
      [EmptyInfo EXCEPT !.requirementsTxt = <<"Django">>] }

ParseResponse ==
    /\ prPc = "ready"
    /\ prResult' = <<parseResponse(prResponse, prStructure)>>
    /\ prPc' = "done"
    /\ UNCHANGED <<prBlocks, prSep, prResponse, prStructure>>
    /\ UNCHANGED prOthers

PRNext == ParseResponse


-----------------------------------------------------------------------------
(* LLMService.generateDockerFiles: the simple (single provider call) mode *)

ApiProviders == {"openai", "gemini", "anthropic"}

\* What callOpenAI / callGemini may resolve with ('' when the completion is empty)
SvcResponses == {RenderResponse(bs, <<NL, NL>>) : bs \in SeqsUpTo(BlockKinds, 1)}

\* What the provider client may reject with: Error instances and another value
ProviderFailures == {"401 Unauthorized", "429 Rate limit", "<not an Error>"}

\* error instanceof Error ? error.message : 'Unknown error'
ErrorMessage(e) == IF e = "<not an Error>" THEN <<"Unknown error">> ELSE <<e>>

\* the wrapping with the cause left out
WrapServiceError_DropsCause(message) == <<"Failed to generate Docker files">>
\* The catch block: the failure is wrapped in a new Error and rethrown
WrapServiceError(message) == <<"Failed to generate Docker files: ">> \o message

\* generateDockerFiles up to its await: the provider call is issued, or the
\* provider is not configured and the error goes through the catch block
SvcGenerate ==
    /\ svcPc = "ready"
    /\ IF apiProvider = "openai" /\ openaiClient
       THEN /\ svcCalls' = Append(svcCalls, [provider |-> "openai", outcome |-> "pending"])
            /\ svcPc' = "calling"
            /\ UNCHANGED svcThrown
       ELSE IF apiProvider = "gemini" /\ geminiClient
       THEN /\ svcCalls' = Append(svcCalls, [provider |-> "gemini", outcome |-> "pending"])
            /\ svcPc' = "calling"
            /\ UNCHANGED svcThrown
       ELSE /\ svcThrown' = WrapServiceError(<<apiProvider, " API is not configured. Please set up API keys in settings.">>)
            /\ svcPc' = "threw"
            /\ UNCHANGED svcCalls
    /\ UNCHANGED <<apiProvider, openaiClient, geminiClient, svcStructure, svcReturn>>
    /\ UNCHANGED svcOthers

\* The provider call resolves: the response is parsed and returned
SvcProviderResolves(response) ==
    /\ svcPc = "calling"
    /\ svcCalls' = [svcCalls EXCEPT ![Len(svcCalls)].outcome = "resolved"]
    /\ svcReturn' = <<parseResponse(response, svcStructure)>>
    /\ svcPc' = "returned"
    /\ UNCHANGED <<apiProvider, openaiClient, geminiClient, svcStructure, svcThrown>>
    /\ UNCHANGED svcOthers

SvcProviderRejects_Retries(e) ==
    /\ svcPc = "calling"
    /\ IF Len(svcCalls) < 2
       THEN /\ svcCalls' = Append([svcCalls EXCEPT ![Len(svcCalls)].outcome = "rejected"],
                                  [provider |-> apiProvider, outcome |-> "pending"])
            /\ UNCHANGED <<svcPc, svcThrown>>
       ELSE /\ svcCalls' = [svcCalls EXCEPT ![Len(svcCalls)].outcome = "rejected"]
            /\ svcThrown' = WrapServiceError(ErrorMessage(e))
            /\ svcPc' = "threw"
    /\ UNCHANGED <<apiProvider, openaiClient, geminiClient, svcStructure, svcReturn>>
    /\ UNCHANGED svcOthers
\* The provider call rejects: the catch block wraps and rethrows
SvcProviderRejects(e) ==
    /\ svcPc = "calling"
    /\ svcCalls' = [svcCalls EXCEPT ![Len(svcCalls)].outcome = "rejected"]
    /\ svcThrown' = WrapServiceError(ErrorMessage(e))
    /\ svcPc' = "threw"
    /\ UNCHANGED <<apiProvider, openaiClient, geminiClient, svcStructure, svcReturn>>
    /\ UNCHANGED svcOthers

SVCNext ==
    \/ SvcGenerate
    \/ \E response \in SvcResponses : SvcProviderResolves(response)
    \/ \E e \in ProviderFailures : SvcProviderRejects(e)


-----------------------------------------------------------------------------
(* LangChainDockerGenerator.generateDockerFiles: the structured-chain mode *)

maxAttempts == 3

\* project type from frontend/backend presence
DetermineProjectType(detection) ==
    LET hasFrontend == detection.frontend # "unknown"
        hasBackend == detection.backend # "unknown"
    IN  IF hasFrontend /\ hasBackend THEN "fullstack"
        ELSE IF hasFrontend /\ ~hasBackend THEN "frontend-only"
        ELSE IF ~hasFrontend /\ hasBackend THEN "backend-only"
        ELSE "api-only"

LcDetections ==
    [frontend : {"unknown", "react"}, backend : {"unknown", "express"}]

\* The five keys the format instructions ask for
JsonKeys == {"dockerfile", "docker_compose", "nginx_conf", "dockerignore", "notes"}

\* A member token stands for one "key": "value" member of a JSON object
MemberTokens ==
    {"df:FROM", "df:other", "dc:services", "dc:other", "ng:server", "ng:other",
     "di", "notes"}

MemberKey(t) ==
    CASE t \in {"df:FROM", "df:other"} -> "dockerfile"
      [] t \in {"dc:services", "dc:other"} -> "docker_compose"
      [] t \in {"ng:server", "ng:other"} -> "nginx_conf"
      [] t = "di" -> "dockerignore"
      [] OTHER -> "notes"

MemberValue(t) ==
    CASE t = "df:FROM" -> <<"FROM", " node:18-alpine", NL, "CMD", " npm start">>
      [] t = "df:other" -> <<"RUN", " make">>
      [] t = "dc:services" -> <<"services:", NL, "  app:">>
      [] t = "dc:other" -> <<"version: '3'">>
      [] t = "ng:server" -> <<"server {", NL, "}">>
      [] t = "ng:other" -> <<"events {}">>
      [] t = "di" -> <<"node_modules", NL, ".git">>
      [] OTHER -> <<"docker-compose up -d">>

\* The contents (response.content) the chain may resolve with
ChainResponses ==
    { <<>>,
      <<"Sorry, I cannot help.">>,
      <<"{", "df:FROM", "dc:services", "ng:server", "di", "notes", "}">>,
      <<"Here you go:", "{", "df:FROM", "dc:services", "ng:server", "di", "notes", "}", "Enjoy">>,
      <<"{", "df:other", "dc:other", "ng:other", "}">>,
      <<"{", "df:FROM", "dc:services", "di", "notes", "}">>,
      <<"{", "df:FROM", "dc:services", "ng:server", "}", "Use {braces}", "}">>,
      <<"{", "df:FROM", "}", "and", "{", "dc:services", "}">>,
      <<"{", "not json", "}">>,
      <<"}", "{">> }

\* The errors chain.invoke may reject with
ChainErrors == {"ProviderError: rate limit", "ProviderError: unauthorized"}

\* responseText.match(/\{[\s\S]*\}/): leftmost "{", greedy to the last "}"
JsonMatch(text) ==
    LET opens == {i \in 1..Len(text) : text[i] = "{"}
        closes == {i \in 1..Len(text) : text[i] = "}"}
    IN  IF opens = {} THEN <<>>
        ELSE LET a == CHOOSE i \in opens : \A j \in opens : i <= j
                 after == {i \in closes : i > a}
             IN  IF after = {} THEN <<>>
                 ELSE SubSeq(text, a, CHOOSE i \in after : \A j \in after : j <= i)

\* JSON.parse accepts "{" members "}" only
JsonValid(s) ==
    /\ Len(s) >= 2
    /\ s[1] = "{"
    /\ s[Len(s)] = "}"
    /\ \A i \in 2..(Len(s) - 1) : s[i] \in MemberTokens

\* JSON.parse of a valid object: a later duplicate key wins, a missing key is undefined
JsonParse(s) ==
    [k \in JsonKeys |->
        LET at == {i \in 2..(Len(s) - 1) : MemberKey(s[i]) = k}
        IN  IF at = {} THEN <<UNDEFINED>>
            ELSE MemberValue(s[CHOOSE i \in at : \A j \in at : j <= i])]

\* The body of the inner try for a resolved chain.invoke:
\* [ok |-> TRUE, obj |-> decoded] or [ok |-> FALSE, error |-> the error thrown]
TryDecode(content) ==
    IF content = <<>>
    THEN [ok |-> FALSE, error |-> "TypeError: responseText.match is not a function",
          obj |-> [k \in JsonKeys |-> <<UNDEFINED>>]]
    ELSE IF JsonMatch(content) = <<>>
    THEN [ok |-> FALSE, error |-> "Error: No valid JSON found in response",
          obj |-> [k \in JsonKeys |-> <<UNDEFINED>>]]
    ELSE IF ~JsonValid(JsonMatch(content))
    THEN [ok |-> FALSE, error |-> "SyntaxError: Unexpected token in JSON",
          obj |-> [k \in JsonKeys |-> <<UNDEFINED>>]]
    ELSE [ok |-> TRUE, error |-> "", obj |-> JsonParse(JsonMatch(content))]

\* while (attempts < maxAttempts)
LoopCondition(a) == a < maxAttempts

\* if (attempts === maxAttempts) throw error
RetriesExhausted_OffByOne(a) == a = maxAttempts + 1
RetriesExhausted(a) == a = maxAttempts

\* setTimeout(resolve, 1000 * attempts)
RetryDelay_Constant(a) == 1000
RetryDelay(a) == 1000 * a

\* The outer catch: the error is wrapped in a new Error
WrapLangChainError(e) == <<"Failed to generate Docker files with LangChain: ", e>>

\* The code after the loop with the contents of the first two files exchanged
Transform_SwapsFiles(res) ==
    IF res = <<>>
    THEN [threw |-> TRUE, error |-> "TypeError: Cannot read properties of undefined",
          value |-> <<>>]
    ELSE LET obj == res[1]
             files == << [path |-> "Dockerfile", content |-> obj["docker_compose"]],
                         [path |-> "docker-compose.yml", content |-> obj["dockerfile"]],
                         [path |-> "nginx.conf", content |-> obj["nginx_conf"]],
                         [path |-> ".dockerignore", content |-> obj["dockerignore"]],
                         [path |-> "README-Docker.md", content |-> obj["notes"]] >>
             w1 == IF ~Includes(obj["dockerfile"], <<"FROM">>)
                   THEN <<"Dockerfile may be incomplete - please review">> ELSE <<>>
             w2 == IF ~Includes(obj["docker_compose"], <<"services:">>)
                   THEN <<"Docker Compose may be incomplete - please review">> ELSE <<>>
             w3 == IF ~Includes(obj["nginx_conf"], <<"server {">>)
                   THEN <<"Nginx configuration may be incomplete - please review">> ELSE <<>>
         IN  IF \E k \in {"dockerfile", "docker_compose", "nginx_conf"} : obj[k] = <<UNDEFINED>>
             THEN [threw |-> TRUE, error |-> "TypeError: Cannot read properties of undefined",
                   value |-> <<>>]
             ELSE [threw |-> FALSE, error |-> "",
                   value |-> <<[files |-> files, warnings |-> w1 \o w2 \o w3]>>]

\* The code after the loop: build files, validate, return; a missing result or
\* a missing validated key raises a TypeError, which the outer catch wraps
Transform(res) ==
    IF res = <<>>
    THEN [threw |-> TRUE, error |-> "TypeError: Cannot read properties of undefined",
          value |-> <<>>]
    ELSE LET obj == res[1]
             files == << [path |-> "Dockerfile", content |-> obj["dockerfile"]],
                         [path |-> "docker-compose.yml", content |-> obj["docker_compose"]],
                         [path |-> "nginx.conf", content |-> obj["nginx_conf"]],
                         [path |-> ".dockerignore", content |-> obj["dockerignore"]],
                         [path |-> "README-Docker.md", content |-> obj["notes"]] >>
             w1 == IF ~Includes(obj["dockerfile"], <<"FROM">>)
                   THEN <<"Dockerfile may be incomplete - please review">> ELSE <<>>
             w2 == IF ~Includes(obj["docker_compose"], <<"services:">>)
                   THEN <<"Docker Compose may be incomplete - please review">> ELSE <<>>
             w3 == IF ~Includes(obj["nginx_conf"], <<"server {">>)
                   THEN <<"Nginx configuration may be incomplete - please review">> ELSE <<>>
         IN  IF \E k \in {"dockerfile", "docker_compose", "nginx_conf"} : obj[k] = <<UNDEFINED>>
             THEN [threw |-> TRUE, error |-> "TypeError: Cannot read properties of undefined",
                   value |-> <<>>]
             ELSE [threw |-> FALSE, error |-> "",
                   value |-> <<[files |-> files, warnings |-> w1 \o w2 \o w3]>>]

\* Leaving the loop with `res` as result: runs the code after the loop
LCFinish(res) ==
    LET t == Transform(res)
    IN  /\ lcPc' = IF t.threw THEN "threw" ELSE "returned"
        /\ lcReturn' = t.value
        /\ lcThrown' = IF t.threw THEN WrapLangChainError(t.error) ELSE <<>>

\* The inner catch block for error e
LCCatch(e) ==
    /\ attempts' = attempts + 1
    /\ lcErrors' = Append(lcErrors, e)
    /\ IF RetriesExhausted(attempts + 1)
       THEN /\ lcPc' = "threw"
            /\ lcThrown' = WrapLangChainError(e)
            /\ UNCHANGED <<lcDelays, lcReturn>>
       ELSE /\ lcPc' = "delay"
            /\ lcDelays' = Append(lcDelays, RetryDelay(attempts + 1))
            /\ UNCHANGED <<lcThrown, lcReturn>>

\* generateDockerFiles is called: project type, template variables, loop entry
LCGenerate(detection) ==
    /\ lcPc = "idle"
    /\ lcDetection' = detection
    /\ projectType' = DetermineProjectType(detection)
    /\ lcPc' = "loop"
    /\ UNCHANGED <<attempts, result, lcInvocations, lcDelays, lcErrors, lcResponses,
                   lcReturn, lcThrown>>
    /\ UNCHANGED lcOthers

\* Loop head: one more chain.invoke, or the loop ends without a result
LCInvoke ==
    /\ lcPc = "loop"
    /\ IF LoopCondition(attempts)
       THEN /\ lcInvocations' = lcInvocations + 1
            /\ lcPc' = "await"
            /\ UNCHANGED <<lcReturn, lcThrown>>
       ELSE /\ LCFinish(result)
            /\ UNCHANGED lcInvocations
    /\ UNCHANGED <<lcDetection, projectType, attempts, result, lcDelays, lcErrors,
                   lcResponses>>
    /\ UNCHANGED lcOthers

\* chain.invoke resolves with a message whose content is `content`
LCResolve(content) ==
    /\ lcPc = "await"
    /\ LET d == TryDecode(content)
       IN  IF d.ok
           THEN /\ result' = <<d.obj>>
                /\ LCFinish(<<d.obj>>)
                /\ UNCHANGED <<attempts, lcErrors, lcDelays>>
           ELSE /\ LCCatch(d.error)
                /\ UNCHANGED result
    /\ lcResponses' = Append(lcResponses, content)
    /\ UNCHANGED <<lcDetection, projectType, lcInvocations>>
    /\ UNCHANGED lcOthers

\* chain.invoke rejects with error e
LCReject(e) ==
    /\ lcPc = "await"
    /\ LCCatch(e)
    /\ UNCHANGED <<lcDetection, projectType, result, lcInvocations, lcResponses>>
    /\ UNCHANGED lcOthers

\* The retry timer fires
LCDelayElapsed ==
    /\ lcPc = "delay"
    /\ lcPc' = "loop"
    /\ UNCHANGED <<lcDetection, projectType, attempts, result, lcInvocations,
                   lcDelays, lcErrors, lcResponses, lcReturn, lcThrown>>
    /\ UNCHANGED lcOthers

LCNext ==
    \/ \E detection \in LcDetections : LCGenerate(detection)
    \/ LCInvoke
    \/ \E content \in ChainResponses : LCResolve(content)
    \/ \E e \in ChainErrors : LCReject(e)
    \/ LCDelayElapsed



-----------------------------------------------------------------------------
(* The analyzeProject command: validateApiConfiguration, configureApiKeys,  *)
(* generation, preview and FileManager.writeDockerFiles / writeFiles        *)

\* The settings of the README table (keys are unset until configured)
DefaultSettings ==
    [apiProvider |-> "openai", model |-> "gpt-4", openaiApiKey |-> <<>>,
     geminiApiKey |-> <<>>, includeNginx |-> TRUE, overwriteFiles |-> FALSE]

\* API key values: unset or empty, blank, and a key
ApiKeys == {<<>>, <<SP>>, <<"sk-live">>}

SettingsValues ==
    { [apiProvider |-> p, model |-> "gpt-4", openaiApiKey |-> ok, geminiApiKey |-> gk,
       includeNginx |-> n, overwriteFiles |-> o] :
        p \in ApiProviders, ok \in ApiKeys, gk \in {<<>>, <<"g-live">>},
        n \in BOOLEAN, o \in BOOLEAN }

\* !!apiKey && apiKey.trim().length > 0
KeyConfigured(apiKey) == apiKey # <<>> /\ Len(Trim(apiKey)) > 0

\* a test of the keys that does not look at the active provider
IsConfigured_AnyKey(cfg) ==
    KeyConfigured(cfg.openaiApiKey) \/ KeyConfigured(cfg.geminiApiKey)
\* isConfigured of validateApiConfiguration
IsConfigured(cfg) ==
    IF cfg.apiProvider = "openai" THEN KeyConfigured(cfg.openaiApiKey)
    ELSE IF cfg.apiProvider = "gemini" THEN KeyConfigured(cfg.geminiApiKey)
    ELSE FALSE

\* A message of vscode.window: its kind, its text and its action items
Message(kind, text, items) == [kind |-> kind, text |-> text, items |-> items]

NotConfiguredMessage(provider) ==
    Message("error",
            <<provider, " API key is not configured. Please set up your API key to use Auto Docker Extension.">>,
            {"Configure Now", "Cancel"})

\* The catch block of analyzeProject: one error message with the cause
FailureMessage(errorMessage) ==
    Message("error", <<"Failed to generate Docker files: ">> \o errorMessage, {})

CancelledMessage ==
    Message("info", <<"Docker file generation cancelled. You can try again anytime!">>,
            {"Try Direct Mode"})

PreviewFailedMessage ==
    Message("error", <<"Failed to show preview. Creating files directly...">>, {})

\* The dialog of the catch block around showPreview in analyzeProject
PreviewErrorMessage ==
    Message("warning",
            <<"Preview failed to load. Would you like to create the Docker files directly?">>,
            {"Yes, Create Files", "Cancel"})

\* array.join(', ')
RECURSIVE Join(_)
Join(names) ==
    IF names = <<>> THEN <<>>
    ELSE IF Len(names) = 1 THEN <<names[1]>>
    ELSE <<names[1], ", ">> \o Join(Tail(names))

OverwriteMessage(existing) ==
    Message("warning",
            <<"The following Docker files already exist: ">> \o Join(existing)
               \o <<". What would you like to do?">>,
            {"Overwrite All", "Skip Existing", "Cancel"})

\* showSuccessMessage
SuccessMessage(writtenFiles, skippedFiles) ==
    Message("info",
            <<"Successfully generated Docker files: ">> \o Join(writtenFiles)
               \o (IF Len(skippedFiles) > 0
                   THEN <<". Skipped existing files: ">> \o Join(skippedFiles)
                   ELSE <<>>),
            {"Open Files"})

WriteFailedMessage(name, error) ==
    Message("error", <<"Failed to write ", name, ": ", error>>, {})

\* What createPrompt asks for: the build style and whether an nginx.conf
createPrompt(projectStructure, cfg) ==
    [multiStage |-> projectStructure.hasMultiStage,
     asksNginx |-> cfg.includeNginx /\ Truthy(projectStructure.frontend)]

\* The raw responses of a run: an empty completion, the three mandatory blocks,
\* and the three blocks followed by an nginx block
RunBlocks ==
    << [tag |-> <<>>, content |-> <<"node_modules", NL, ".git">>],
       [tag |-> <<"dockerfile">>, content |-> <<"FROM", " node:18-alpine", NL, "CMD", " npm start">>],
       [tag |-> <<"yaml">>, content |-> <<"services:", NL, "  app:">>],
       [tag |-> <<"nginx">>, content |-> <<"server {", NL, "}">>] >>

RunResponses ==
    { <<>>,
      RenderResponse(SubSeq(RunBlocks, 1, 3), <<NL, NL>>),
      RenderResponse(RunBlocks, <<NL, NL>>) }

\* The names writeDockerFiles may write, and the state of a file on disk
OutputNames == {"Dockerfile", "docker-compose.yml", ".dockerignore", "nginx.conf"}
EmptyDisk == [n \in OutputNames |-> "absent"]
Disks ==
    { EmptyDisk,
      [EmptyDisk EXCEPT !["Dockerfile"] = "old"],
      [n \in OutputNames |-> "old"] }

WriteErrors == {"EACCES: permission denied"}

\* filesToWrite of writeDockerFiles: nginx.conf only for a truthy nginxConf
FilesOf(files) ==
    <<"Dockerfile", "docker-compose.yml", ".dockerignore">>
       \o (IF files.nginxConf # <<UNDEFINED>> /\ files.nginxConf # <<>>
           THEN <<"nginx.conf">> ELSE <<>>)

\* array.filter
RECURSIVE Filter(_, _)
Filter(names, keep) ==
    IF names = <<>> THEN <<>>
    ELSE (IF names[1] \in keep THEN <<names[1]>> ELSE <<>>) \o Filter(Tail(names), keep)

\* Elements of a list
Range(names) == {names[i] : i \in 1..Len(names)}

\* configureApiKeys: the settings after the user answered its prompts (the
\* provider pick, the key typed in the input box, the model pick)
configureApiKeys(cfg, pick, apiKey, model) ==
    IF pick = "OpenAI (GPT)" /\ apiKey # <<>>
    THEN [cfg EXCEPT !.apiProvider = "openai", !.openaiApiKey = apiKey,
                     !.model = IF model # UNDEFINED THEN model ELSE @]
    ELSE IF pick = "Google Gemini" /\ apiKey # <<>>
    THEN [cfg EXCEPT !.apiProvider = "gemini", !.geminiApiKey = apiKey,
                     !.model = "gemini-pro"]
    ELSE cfg

\* The confirmation configureApiKeys shows when it saved a key
ConfigureMessages(pick, apiKey) ==
    IF pick = "OpenAI (GPT)" /\ apiKey # <<>>
    THEN <<Message("info", <<"OpenAI API configuration saved successfully!">>, {})>>
    ELSE IF pick = "Google Gemini" /\ apiKey # <<>>
    THEN <<Message("info", <<"Google Gemini API configuration saved successfully!">>, {})>>
    ELSE <<>>

ProviderPicks == {UNDEFINED, "OpenAI (GPT)", "Google Gemini"}
ModelPicks == {UNDEFINED, "gpt-4"}

\* Steps 1 and 2 of analyzeProject: the analysis, the LLMService constructor
\* (a client per truthy key) and generateDockerFiles up to its provider call
Generate(cfg, msgs, calls) ==
    LET st == BuildStructure({}, runWorkspace)
    IN  /\ runStructure' = <<st>>
        /\ IF \/ (cfg.apiProvider = "openai" /\ cfg.openaiApiKey # <<>>)
              \/ (cfg.apiProvider = "gemini" /\ cfg.geminiApiKey # <<>>)
           THEN /\ runCalls' = Append(calls, [provider |-> cfg.apiProvider,
                                              model |-> cfg.model,
                                              prompt |-> createPrompt(st, cfg),
                                              outcome |-> "pending",
                                              error |-> ""])
                /\ messages' = msgs
                /\ runPc' = "calling"
           ELSE /\ runCalls' = calls
                /\ messages' = Append(msgs, FailureMessage(WrapServiceError(
                       <<cfg.apiProvider,
                         " API is not configured. Please set up API keys in settings.">>)))
                /\ runPc' = "done"

\* validateApiConfiguration up to its dialog, and what analyzeProject does
\* when it returns true
Validate(cfg, msgs, n, calls) ==
    /\ validations' = n + 1
    /\ IF IsConfigured(cfg)
       THEN Generate(cfg, msgs, calls)
       ELSE /\ messages' = Append(msgs, NotConfiguredMessage(cfg.apiProvider))
            /\ runPc' = "askConfigure"
            /\ runStructure' = <<>>
            /\ runCalls' = calls

\* analyzeProject from its first line: getWorkspaceRoot throws without a
\* workspace folder, and the catch block reports it
StartRun ==
    IF ~workspaceOpen
    THEN /\ messages' = <<FailureMessage(<<"No workspace folder is open">>)>>
         /\ runPc' = "done"
         /\ validations' = 0
         /\ runStructure' = <<>>
         /\ runCalls' = <<>>
    ELSE Validate(settings, <<>>, 0, <<>>)

\* writeFiles is entered with a list; an empty list ends at once with the
\* success message of writeDockerFiles
WriteFiles(list, skipped, msgs) ==
    /\ filesToWrite' = list
    /\ IF list = <<>>
       THEN /\ messages' = Append(msgs, SuccessMessage(list, skipped))
            /\ runPc' = "done"
       ELSE /\ messages' = msgs
            /\ runPc' = "writing"

\* The files of the list that exist at the existence check
ExistingFiles(names) == Filter(names, {n \in OutputNames : disk[n] # "absent"})
NewFiles(names) == Filter(names, {n \in OutputNames : disk[n] = "absent"})

\* writeDockerFiles up to the overwrite dialog or into writeFiles
WriteDockerFiles(files, msgs) ==
    LET names == FilesOf(files)
    IN  /\ existingFiles' = ExistingFiles(names)
        /\ newFiles' = NewFiles(names)
        /\ IF Len(ExistingFiles(names)) > 0 /\ ~settings.overwriteFiles
           THEN /\ messages' = Append(msgs, OverwriteMessage(ExistingFiles(names)))
                /\ runPc' = "overwriteDialog"
                /\ filesToWrite' = <<>>
           ELSE WriteFiles(names, <<>>, msgs)

\* The command is invoked
RunStart ==
    /\ runPc = "start"
    /\ StartRun
    /\ UNCHANGED <<settings, skipPreview, workspaceOpen, runWorkspace, previews,
                   dockerFiles, disk, filesToWrite, writeAttempts>>
    /\ UNCHANGED <<confirmed, existingFiles, newFiles, overwriteChoice>>
    /\ UNCHANGED runOthers

\* The user answers the not-configured error with 'Configure Now'
RunChooseConfigureNow ==
    /\ runPc = "askConfigure"
    /\ validations < MaxValidations
    /\ runPc' = "configure"
    /\ UNCHANGED <<settings, skipPreview, workspaceOpen, runWorkspace, runStructure,
                   validations, runCalls, previews, dockerFiles, messages, disk,
                   filesToWrite, writeAttempts>>
    /\ UNCHANGED <<confirmed, existingFiles, newFiles, overwriteChoice>>
    /\ UNCHANGED runOthers

\* The user answers it with 'Cancel' or dismisses it: validation returns false
RunChooseCancel ==
    /\ runPc = "askConfigure"
    /\ runPc' = "done"
    /\ UNCHANGED <<settings, skipPreview, workspaceOpen, runWorkspace, runStructure,
                   validations, runCalls, previews, dockerFiles, messages, disk,
                   filesToWrite, writeAttempts>>
    /\ UNCHANGED <<confirmed, existingFiles, newFiles, overwriteChoice>>
    /\ UNCHANGED runOthers

\* configureApiKeys completes and validateApiConfiguration validates again
RunConfigure(pick, apiKey, model) ==
    /\ runPc = "configure"
    /\ settings' = configureApiKeys(settings, pick, apiKey, model)
    /\ Validate(settings', messages \o ConfigureMessages(pick, apiKey), validations,
                runCalls)
    /\ UNCHANGED <<skipPreview, workspaceOpen, runWorkspace, previews, dockerFiles,
                   disk, filesToWrite, writeAttempts>>
    /\ UNCHANGED <<confirmed, existingFiles, newFiles, overwriteChoice>>
    /\ UNCHANGED runOthers

\* The provider call resolves: the response is parsed; then the preview panel
\* opens, or fails to open (showPreview reports it and answers true), or is
\* skipped in direct mode
RunProviderResolves(response, panelOpens) ==
    /\ runPc = "calling"
    /\ LET files == parseResponse(response, runStructure[1])
       IN  /\ dockerFiles' = <<files>>
           /\ IF skipPreview
              THEN /\ confirmed' = "direct mode"
                   /\ WriteDockerFiles(files, messages)
                   /\ UNCHANGED previews
              ELSE IF panelOpens
              THEN /\ previews' = previews + 1
                   /\ runPc' = "preview"
                   /\ UNCHANGED <<messages, filesToWrite, confirmed, existingFiles,
                                  newFiles>>
              ELSE /\ confirmed' = "preview failed"
                   /\ WriteDockerFiles(files, Append(messages, PreviewFailedMessage))
                   /\ UNCHANGED previews
    /\ runCalls' = [runCalls EXCEPT ![Len(runCalls)].outcome = "resolved"]
    /\ UNCHANGED <<settings, skipPreview, workspaceOpen, runWorkspace, runStructure,
                   validations, disk, writeAttempts>>
    /\ UNCHANGED overwriteChoice
    /\ UNCHANGED runOthers

\* The provider call rejects: generateDockerFiles wraps the error and the catch
\* block of analyzeProject reports it
RunProviderRejects(e) ==
    /\ runPc = "calling"
    /\ runCalls' = [runCalls EXCEPT ![Len(runCalls)].outcome = "rejected",
                                    ![Len(runCalls)].error = e]
    /\ messages' = Append(messages, FailureMessage(WrapServiceError(ErrorMessage(e))))
    /\ runPc' = "done"
    /\ UNCHANGED <<settings, skipPreview, workspaceOpen, runWorkspace, runStructure,
                   validations, previews, dockerFiles, disk, filesToWrite,
                   writeAttempts>>
    /\ UNCHANGED <<confirmed, existingFiles, newFiles, overwriteChoice>>
    /\ UNCHANGED runOthers

\* The preview resolves true: 'Create Files' was clicked
RunPreviewConfirm ==
    /\ runPc = "preview"
    /\ confirmed' = "Create Files"
    /\ WriteDockerFiles(dockerFiles[1], messages)
    /\ UNCHANGED <<settings, skipPreview, workspaceOpen, runWorkspace, runStructure,
                   validations, runCalls, previews, dockerFiles, disk, writeAttempts>>
    /\ UNCHANGED overwriteChoice
    /\ UNCHANGED runOthers

\* The preview resolves false: cancel, panel closed or timeout
RunPreviewCancel ==
    /\ runPc = "preview"
    /\ messages' = Append(messages, CancelledMessage)
    /\ runPc' = "cancelled"
    /\ UNCHANGED <<settings, skipPreview, workspaceOpen, runWorkspace, runStructure,
                   validations, runCalls, previews, dockerFiles, disk, filesToWrite,
                   writeAttempts>>
    /\ UNCHANGED <<confirmed, existingFiles, newFiles, overwriteChoice>>
    /\ UNCHANGED runOthers

\* showPreview rejects (its executor throws after the panel was created): the
\* catch block of analyzeProject asks whether to create the files directly
RunPreviewRejects ==
    /\ runPc = "preview"
    /\ messages' = Append(messages, PreviewErrorMessage)
    /\ runPc' = "previewError"
    /\ UNCHANGED <<settings, skipPreview, workspaceOpen, runWorkspace, runStructure,
                   validations, runCalls, previews, dockerFiles, disk, filesToWrite,
                   writeAttempts>>
    /\ UNCHANGED <<confirmed, existingFiles, newFiles, overwriteChoice>>
    /\ UNCHANGED runOthers

\* The answer to that dialog: confirmed = (choice === 'Yes, Create Files')
RunPreviewErrorChoice(choice) ==
    /\ runPc = "previewError"
    /\ IF choice = "Yes, Create Files"
       THEN /\ confirmed' = choice
            /\ WriteDockerFiles(dockerFiles[1], messages)
       ELSE /\ messages' = Append(messages, CancelledMessage)
            /\ runPc' = "cancelled"
            /\ UNCHANGED <<confirmed, existingFiles, newFiles, filesToWrite>>
    /\ UNCHANGED <<settings, skipPreview, workspaceOpen, runWorkspace, runStructure,
                   validations, runCalls, previews, dockerFiles, disk, writeAttempts>>
    /\ UNCHANGED overwriteChoice
    /\ UNCHANGED runOthers

\* 'Try Direct Mode' of the cancellation message: analyzeProject(true)
RunTryDirectMode ==
    /\ runPc = "cancelled"
    /\ skipPreview' = TRUE
    /\ StartRun
    /\ previews' = 0
    /\ dockerFiles' = <<>>
    /\ filesToWrite' = <<>>
    /\ writeAttempts' = <<>>
    /\ confirmed' = "no"
    /\ existingFiles' = <<>>
    /\ newFiles' = <<>>
    /\ overwriteChoice' = ""
    /\ UNCHANGED <<settings, workspaceOpen, runWorkspace, disk>>
    /\ UNCHANGED runOthers

\* The overwrite dialog without its default case: a dismissed dialog falls
\* through to the write of all files
RunOverwriteChoice_DismissWrites(choice) ==
    /\ runPc = "overwriteDialog"
    /\ overwriteChoice' = choice
    /\ LET names == FilesOf(dockerFiles[1])
       IN  IF choice = "Overwrite All" \/ choice = UNDEFINED
           THEN WriteFiles(names, <<>>, messages)
           ELSE IF choice = "Skip Existing"
           THEN WriteFiles(Filter(names, Range(newFiles)), existingFiles, messages)
           ELSE /\ runPc' = "done"
                /\ UNCHANGED <<messages, filesToWrite>>
    /\ UNCHANGED <<settings, skipPreview, workspaceOpen, runWorkspace, runStructure,
                   validations, runCalls, previews, dockerFiles, disk, writeAttempts>>
    /\ UNCHANGED <<confirmed, existingFiles, newFiles>>
    /\ UNCHANGED runOthers

\* The answer to the overwrite dialog of writeDockerFiles
RunOverwriteChoice(choice) ==
    /\ runPc = "overwriteDialog"
    /\ overwriteChoice' = choice
    /\ LET names == FilesOf(dockerFiles[1])
       IN  IF choice = "Overwrite All"
           THEN WriteFiles(names, <<>>, messages)
           ELSE IF choice = "Skip Existing"
           THEN WriteFiles(Filter(names, Range(newFiles)), existingFiles, messages)
           ELSE /\ runPc' = "done"
                /\ UNCHANGED <<messages, filesToWrite>>
    /\ UNCHANGED <<settings, skipPreview, workspaceOpen, runWorkspace, runStructure,
                   validations, runCalls, previews, dockerFiles, disk, writeAttempts>>
    /\ UNCHANGED <<confirmed, existingFiles, newFiles>>
    /\ UNCHANGED runOthers

\* The files of the artifact set that the list of writeFiles leaves out
SkippedFiles == Filter(FilesOf(dockerFiles[1]), OutputNames \ Range(filesToWrite))

\* After the last file of the loop writeFiles returns and writeDockerFiles
\* shows its success message
AfterWrite(msgs) ==
    IF Len(writeAttempts) + 1 = Len(filesToWrite)
    THEN /\ messages' = Append(msgs, SuccessMessage(filesToWrite, SkippedFiles))
         /\ runPc' = "done"
    ELSE /\ messages' = msgs
         /\ UNCHANGED runPc

\* writeFiles: fs.writeFile of the current file resolves
RunWriteResolves ==
    /\ runPc = "writing"
    /\ LET name == filesToWrite[Len(writeAttempts) + 1]
       IN  /\ disk' = [disk EXCEPT ![name] = "new"]
           /\ writeAttempts' = Append(writeAttempts, [name |-> name, ok |-> TRUE])
    /\ AfterWrite(messages)
    /\ UNCHANGED <<settings, skipPreview, workspaceOpen, runWorkspace, runStructure,
                   validations, runCalls, previews, dockerFiles, filesToWrite>>
    /\ UNCHANGED <<confirmed, existingFiles, newFiles, overwriteChoice>>
    /\ UNCHANGED runOthers

\* writeFiles, the abort in place of the catch: the loop ends at the failure
RunWriteRejects_Aborts(error) ==
    /\ runPc = "writing"
    /\ LET name == filesToWrite[Len(writeAttempts) + 1]
       IN  /\ writeAttempts' = Append(writeAttempts, [name |-> name, ok |-> FALSE])
           /\ messages' = Append(messages, WriteFailedMessage(name, error))
    /\ runPc' = "done"
    /\ UNCHANGED <<settings, skipPreview, workspaceOpen, runWorkspace, runStructure,
                   validations, runCalls, previews, dockerFiles, disk, filesToWrite>>
    /\ UNCHANGED <<confirmed, existingFiles, newFiles, overwriteChoice>>
    /\ UNCHANGED runOthers
\* writeFiles: fs.writeFile of the current file rejects; the catch block reports
\* it and the loop goes on
RunWriteRejects(error) ==
    /\ runPc = "writing"
    /\ LET name == filesToWrite[Len(writeAttempts) + 1]
       IN  /\ writeAttempts' = Append(writeAttempts, [name |-> name, ok |-> FALSE])
           /\ AfterWrite(Append(messages, WriteFailedMessage(name, error)))
    /\ UNCHANGED <<settings, skipPreview, workspaceOpen, runWorkspace, runStructure,
                   validations, runCalls, previews, dockerFiles, disk, filesToWrite>>
    /\ UNCHANGED <<confirmed, existingFiles, newFiles, overwriteChoice>>
    /\ UNCHANGED runOthers

RUNNext ==
    \/ RunStart
    \/ RunChooseConfigureNow
    \/ RunChooseCancel
    \/ \E pick \in ProviderPicks, apiKey \in ApiKeys, model \in ModelPicks :
          RunConfigure(pick, apiKey, model)
    \/ \E response \in RunResponses, panelOpens \in BOOLEAN :
          RunProviderResolves(response, panelOpens)
    \/ \E e \in ProviderFailures : RunProviderRejects(e)
    \/ RunPreviewConfirm
    \/ RunPreviewCancel
    \/ RunPreviewRejects
    \/ \E choice \in {"Yes, Create Files", "Cancel", UNDEFINED} :
          RunPreviewErrorChoice(choice)
    \/ RunTryDirectMode
    \/ \E choice \in {"Overwrite All", "Skip Existing", "Cancel", UNDEFINED} :
          RunOverwriteChoice(choice)
    \/ RunWriteResolves
    \/ \E error \in WriteErrors : RunWriteRejects(error)


-----------------------------------------------------------------------------
(* FileManager.showPreview: the webview panel, its callbacks and the timers *)

\* The commands a webview message can carry
PreviewCommands == {"confirm", "cancel", "refresh"}

\* The locals the callbacks share: the flag, the panel and the resolve calls
PvState == [resolved |-> resolved, disposed |-> panelDisposed, calls |-> pvResolveCalls]

\* resolveOnce without its flag test: every call reaches resolve()
resolveOnce_Unguarded(st, value) ==
    [st EXCEPT !.resolved = TRUE, !.calls = Append(@, value)]

\* resolveOnce: the first call sets the flag and calls resolve(value)
resolveOnce(st, value) ==
    IF ~st.resolved
    THEN [st EXCEPT !.resolved = TRUE, !.calls = Append(@, value)]
    ELSE st

\* The onDidDispose callback
onDidDispose(st) ==
    IF ~st.resolved THEN resolveOnce(st, FALSE) ELSE st

\* panel.dispose(): the first call disposes the panel and fires onDidDispose
PanelDispose(st) ==
    IF st.disposed THEN st ELSE onDidDispose([st EXCEPT !.disposed = TRUE])

\* A promise settles with the value of the first resolve() call
Settle(st) ==
    /\ resolved' = st.resolved
    /\ panelDisposed' = st.disposed
    /\ pvResolveCalls' = st.calls
    /\ pvReturn' = IF st.calls = <<>> THEN <<>> ELSE <<st.calls[1]>>

\* showPreview is called: the panel is created and the promise returned with
\* its callbacks and the 5-minute timer registered, or creating the panel
\* throws and the catch block returns true
PVShow(panelOpens) ==
    /\ pvPc = "idle"
    /\ IF panelOpens
       THEN /\ pvPc' = "waiting"
            /\ timeoutPending' = TRUE
            /\ pvReturn' = <<>>
       ELSE /\ pvPc' = "failed"
            /\ timeoutPending' = FALSE
            /\ pvReturn' = <<TRUE>>
    /\ UNCHANGED <<resolved, panelDisposed, disposeTimers, pvResolveCalls, pvEvents>>
    /\ UNCHANGED pvOthers

\* The onDidReceiveMessage callback
PVMessage(command) ==
    /\ pvPc = "waiting"
    /\ ~panelDisposed
    /\ Len(SelectSeq(pvEvents, LAMBDA e : e \in PreviewCommands)) < MaxMessages
    /\ pvEvents' = Append(pvEvents, command)
    /\ IF ~resolved /\ command = "confirm"
       THEN Settle(resolveOnce(PvState, TRUE)) /\ disposeTimers' = disposeTimers + 1
       ELSE IF ~resolved /\ command = "cancel"
       THEN Settle(resolveOnce(PvState, FALSE)) /\ disposeTimers' = disposeTimers + 1
       ELSE UNCHANGED <<resolved, panelDisposed, pvResolveCalls, pvReturn,
                        disposeTimers>>
    /\ UNCHANGED <<pvPc, timeoutPending>>
    /\ UNCHANGED pvOthers

\* The user closes the panel
PVUserCloses ==
    /\ pvPc = "waiting"
    /\ ~panelDisposed
    /\ pvEvents' = Append(pvEvents, "dispose")
    /\ Settle(PanelDispose(PvState))
    /\ UNCHANGED <<pvPc, timeoutPending, disposeTimers>>
    /\ UNCHANGED pvOthers

\* A 100 ms timer of a decided message fires: panel.dispose()
PVDelayedDispose ==
    /\ pvPc = "waiting"
    /\ disposeTimers > 0
    /\ disposeTimers' = disposeTimers - 1
    /\ pvEvents' = IF panelDisposed THEN pvEvents ELSE Append(pvEvents, "dispose")
    /\ Settle(PanelDispose(PvState))
    /\ UNCHANGED <<pvPc, timeoutPending>>
    /\ UNCHANGED pvOthers

\* The 5-minute timer fires
PVTimeout ==
    /\ pvPc = "waiting"
    /\ timeoutPending
    /\ timeoutPending' = FALSE
    /\ pvEvents' = Append(pvEvents, "timeout")
    /\ IF ~resolved
       THEN Settle(resolveOnce(PanelDispose(PvState), FALSE))
       ELSE UNCHANGED <<resolved, panelDisposed, pvResolveCalls, pvReturn>>
    /\ UNCHANGED <<pvPc, disposeTimers>>
    /\ UNCHANGED pvOthers

PVNext ==
    \/ \E panelOpens \in BOOLEAN : PVShow(panelOpens)
    \/ \E command \in PreviewCommands : PVMessage(command)
    \/ PVUserCloses
    \/ PVDelayedDispose
    \/ PVTimeout

-----------------------------------------------------------------------------
(* LangChainDockerGenerator.generateDockerFiles: the included_files variable *)

\* end index of f.content.slice(0, 1000)
SliceEnd == 1000
\* the length above which the marker is appended: f.content.length > 1000
MarkerThreshold == 1000

TruncationMarker == "...(truncated)"

\* String.prototype.slice(0, end) for a non-negative end
Slice(content, end) ==
    SubSeq(content, 1, IF Len(content) < end THEN Len(content) ELSE end)

\* The characters of a sampled file of a given length
ContentChars == <<"F", "R", "O", "M", SP, "{", "}", NL>>
ContentOfLength(n) == [i \in 1..n |-> ContentChars[(i % Len(ContentChars)) + 1]]
SampledPaths == {"package.json", "src/index.js"}

\* The entry with the marker appended from a length of 1000 on
IncludedFileEntry_MarksAtLimit(f) ==
    <<"**", f.path, "**:", NL, FENCE, NL>>
       \o Slice(f.content, SliceEnd)
       \o (IF Len(f.content) >= MarkerThreshold THEN <<NL, TruncationMarker>> ELSE <<>>)
       \o <<NL, FENCE>>

\* The entry of one file: heading, fence, the sliced content, the marker for a
\* longer content, closing fence
IncludedFileEntry(f) ==
    <<"**", f.path, "**:", NL, FENCE, NL>>
       \o Slice(f.content, SliceEnd)
       \o (IF Len(f.content) > MarkerThreshold THEN <<NL, TruncationMarker>> ELSE <<>>)
       \o <<NL, FENCE>>

\* The map callback builds the entry of the file
TRRender ==
    /\ trPc = "ready"
    /\ trEntry' = IncludedFileEntry(trFile)
    /\ trPc' = "done"
    /\ UNCHANGED trFile
    /\ UNCHANGED trOthers

TRNext == TRRender

-----------------------------------------------------------------------------
(* The descriptor of the analyzer handed to the fallback generators *)

\* fallbackExtraction without a Dockerfile block in the response: the fallback
\* Dockerfile is generated from the descriptor analyzeProject returned
DTFallbackDockerfile ==
    /\ dtPc = "done"
    /\ dtDockerfile = <<>>
    /\ dtDockerfile' = <<generateFallbackDockerfile(dtStructure[1])>>
    /\ UNCHANGED dfOthers

-----------------------------------------------------------------------------
(* The configureApiKeys command run on its own, and the provider call that *)
(* LLMService.generateDockerFiles issues with the stored settings          *)

\* The configureApiKeys command runs to completion
CfgConfigure(pick, apiKey, model) ==
    /\ cfgRuns < MaxConfigureRuns
    /\ cfgRuns' = cfgRuns + 1
    /\ settings' = configureApiKeys(settings, pick, apiKey, model)
    /\ UNCHANGED cfgCalls
    /\ UNCHANGED <<runPc, skipPreview, workspaceOpen, runWorkspace, runStructure,
                   validations, runCalls, previews, dockerFiles, messages, disk,
                   filesToWrite, writeAttempts, confirmed, existingFiles, newFiles,
                   overwriteChoice>>
    /\ UNCHANGED <<lcVars, dtVars, fbVars, prVars, svcVars, pvVars, trVars, dfVars>>

\* new LLMService() and generateDockerFiles: callOpenAI or callGemini is issued
\* for the stored provider when its client exists, with the stored model
CfgProviderCall ==
    /\ Len(cfgCalls) < MaxProviderCalls
    /\ \/ (settings.apiProvider = "openai" /\ settings.openaiApiKey # <<>>)
       \/ (settings.apiProvider = "gemini" /\ settings.geminiApiKey # <<>>)
    /\ cfgCalls' = Append(cfgCalls,
                          [api |-> IF settings.apiProvider = "openai"
                                   THEN "callOpenAI" ELSE "callGemini",
                           model |-> settings.model])
    /\ UNCHANGED cfgRuns
    /\ UNCHANGED cfgOthers

CFGNext ==
    \/ \E pick \in ProviderPicks, apiKey \in ApiKeys, model \in ModelPicks :
          CfgConfigure(pick, apiKey, model)
    \/ CfgProviderCall

-----------------------------------------------------------------------------
(* Specifications: one per component, the other components idle *)

DTNext == AnalyzeProject \/ DTFallbackDockerfile

\* Before generateDockerFiles is called
LCInit ==
    /\ lcPc = "idle"
    /\ lcDetection = [frontend |-> "unknown", backend |-> "unknown"]
    /\ projectType = ""
    /\ attempts = 0
    /\ result = <<>>
    /\ lcInvocations = 0
    /\ lcDelays = <<>>
    /\ lcErrors = <<>>
    /\ lcResponses = <<>>
    /\ lcReturn = <<>>
    /\ lcThrown = <<>>
    /\ dtPc = "idle"
    /\ dtFiles = {}
    /\ dtInfo = EmptyInfo
    /\ dtStructure = <<>>
    /\ fbStructure = EmptyStructure
    /\ fbSlot = ""
    /\ fbText = <<>>
    /\ prPc = "idle"
    /\ prBlocks = <<>>
    /\ prSep = <<>>
    /\ prResponse = <<>>
    /\ prStructure = EmptyStructure
    /\ prResult = <<>>
    /\ svcPc = "idle"
    /\ apiProvider = "openai"
    /\ openaiClient = FALSE
    /\ geminiClient = FALSE
    /\ svcStructure = EmptyStructure
    /\ svcCalls = <<>>
    /\ svcReturn = <<>>
    /\ svcThrown = <<>>
    /\ runPc = "idle"
    /\ settings = DefaultSettings
    /\ skipPreview = FALSE
    /\ workspaceOpen = TRUE
    /\ runWorkspace = EmptyInfo
    /\ runStructure = <<>>
    /\ validations = 0
    /\ runCalls = <<>>
    /\ previews = 0
    /\ dockerFiles = <<>>
    /\ messages = <<>>
    /\ disk = EmptyDisk
    /\ filesToWrite = <<>>
    /\ writeAttempts = <<>>
    /\ confirmed = "no"
    /\ existingFiles = <<>>
    /\ newFiles = <<>>
    /\ overwriteChoice = ""
    /\ pvPc = "idle"
    /\ resolved = FALSE
    /\ panelDisposed = FALSE
    /\ timeoutPending = FALSE
    /\ disposeTimers = 0
    /\ pvResolveCalls = <<>>
    /\ pvEvents = <<>>
    /\ pvReturn = <<>>
    /\ trPc = "idle"
    /\ trFile = [path |-> "", content |-> <<>>]
    /\ trEntry = <<>>
    /\ dtDockerfile = <<>>
    /\ cfgRuns = 0
    /\ cfgCalls = <<>>

\* The structured-chain generator
SpecLC == LCInit /\ [][LCNext]_vars

\* A workspace: the file list and the manifests found in it
DTInit ==
    /\ lcPc = "idle"
    /\ lcDetection = [frontend |-> "unknown", backend |-> "unknown"]
    /\ projectType = ""
    /\ attempts = 0
    /\ result = <<>>
    /\ lcInvocations = 0
    /\ lcDelays = <<>>
    /\ lcErrors = <<>>
    /\ lcResponses = <<>>
    /\ lcReturn = <<>>
    /\ lcThrown = <<>>
    /\ dtPc = "ready"
    /\ dtFiles \in FileLists
    /\ dtInfo \in PackageInfos
    /\ dtStructure = <<>>
    /\ fbStructure = EmptyStructure
    /\ fbSlot = ""
    /\ fbText = <<>>
    /\ prPc = "idle"
    /\ prBlocks = <<>>
    /\ prSep = <<>>
    /\ prResponse = <<>>
    /\ prStructure = EmptyStructure
    /\ prResult = <<>>
    /\ svcPc = "idle"
    /\ apiProvider = "openai"
    /\ openaiClient = FALSE
    /\ geminiClient = FALSE
    /\ svcStructure = EmptyStructure
    /\ svcCalls = <<>>
    /\ svcReturn = <<>>
    /\ svcThrown = <<>>
    /\ runPc = "idle"
    /\ settings = DefaultSettings
    /\ skipPreview = FALSE
    /\ workspaceOpen = TRUE
    /\ runWorkspace = EmptyInfo
    /\ runStructure = <<>>
    /\ validations = 0
    /\ runCalls = <<>>
    /\ previews = 0
    /\ dockerFiles = <<>>
    /\ messages = <<>>
    /\ disk = EmptyDisk
    /\ filesToWrite = <<>>
    /\ writeAttempts = <<>>
    /\ confirmed = "no"
    /\ existingFiles = <<>>
    /\ newFiles = <<>>
    /\ overwriteChoice = ""
    /\ pvPc = "idle"
    /\ resolved = FALSE
    /\ panelDisposed = FALSE
    /\ timeoutPending = FALSE
    /\ disposeTimers = 0
    /\ pvResolveCalls = <<>>
    /\ pvEvents = <<>>
    /\ pvReturn = <<>>
    /\ trPc = "idle"
    /\ trFile = [path |-> "", content |-> <<>>]
    /\ trEntry = <<>>
    /\ dtDockerfile = <<>>
    /\ cfgRuns = 0
    /\ cfgCalls = <<>>

\* The project analyzer over every bounded workspace
SpecDetect == DTInit /\ [][DTNext]_vars

\* Every combination of descriptor fields, no generator applied yet
FBInit ==
    /\ lcPc = "idle"
    /\ lcDetection = [frontend |-> "unknown", backend |-> "unknown"]
    /\ projectType = ""
    /\ attempts = 0
    /\ result = <<>>
    /\ lcInvocations = 0
    /\ lcDelays = <<>>
    /\ lcErrors = <<>>
    /\ lcResponses = <<>>
    /\ lcReturn = <<>>
    /\ lcThrown = <<>>
    /\ dtPc = "idle"
    /\ dtFiles = {}
    /\ dtInfo = EmptyInfo
    /\ dtStructure = <<>>
    /\ fbStructure \in FbStructures
    /\ fbSlot = ""
    /\ fbText = <<>>
    /\ prPc = "idle"
    /\ prBlocks = <<>>
    /\ prSep = <<>>
    /\ prResponse = <<>>
    /\ prStructure = EmptyStructure
    /\ prResult = <<>>
    /\ svcPc = "idle"
    /\ apiProvider = "openai"
    /\ openaiClient = FALSE
    /\ geminiClient = FALSE
    /\ svcStructure = EmptyStructure
    /\ svcCalls = <<>>
    /\ svcReturn = <<>>
    /\ svcThrown = <<>>
    /\ runPc = "idle"
    /\ settings = DefaultSettings
    /\ skipPreview = FALSE
    /\ workspaceOpen = TRUE
    /\ runWorkspace = EmptyInfo
    /\ runStructure = <<>>
    /\ validations = 0
    /\ runCalls = <<>>
    /\ previews = 0
    /\ dockerFiles = <<>>
    /\ messages = <<>>
    /\ disk = EmptyDisk
    /\ filesToWrite = <<>>
    /\ writeAttempts = <<>>
    /\ confirmed = "no"
    /\ existingFiles = <<>>
    /\ newFiles = <<>>
    /\ overwriteChoice = ""
    /\ pvPc = "idle"
    /\ resolved = FALSE
    /\ panelDisposed = FALSE
    /\ timeoutPending = FALSE
    /\ disposeTimers = 0
    /\ pvResolveCalls = <<>>
    /\ pvEvents = <<>>
    /\ pvReturn = <<>>
    /\ trPc = "idle"
    /\ trFile = [path |-> "", content |-> <<>>]
    /\ trEntry = <<>>
    /\ dtDockerfile = <<>>
    /\ cfgRuns = 0
    /\ cfgCalls = <<>>

\* The fallback generators over every combination of descriptor fields
SpecFallback == FBInit /\ [][FBNext]_vars

\* A raw response made of fenced blocks, and a ProjectStructure
PRInit ==
    /\ lcPc = "idle"
    /\ lcDetection = [frontend |-> "unknown", backend |-> "unknown"]
    /\ projectType = ""
    /\ attempts = 0
    /\ result = <<>>
    /\ lcInvocations = 0
    /\ lcDelays = <<>>
    /\ lcErrors = <<>>
    /\ lcResponses = <<>>
    /\ lcReturn = <<>>
    /\ lcThrown = <<>>
    /\ dtPc = "idle"
    /\ dtFiles = {}
    /\ dtInfo = EmptyInfo
    /\ dtStructure = <<>>
    /\ fbStructure = EmptyStructure
    /\ fbSlot = ""
    /\ fbText = <<>>
    /\ prPc = "ready"
    /\ prBlocks \in SeqsUpTo(BlockKinds, MaxBlocks)
    /\ prSep \in Separators
    /\ prResponse = RenderResponse(prBlocks, prSep)
    /\ prStructure \in {BuildStructure({}, info) : info \in PrWorkspaces}
    /\ prResult = <<>>
    /\ svcPc = "idle"
    /\ apiProvider = "openai"
    /\ openaiClient = FALSE
    /\ geminiClient = FALSE
    /\ svcStructure = EmptyStructure
    /\ svcCalls = <<>>
    /\ svcReturn = <<>>
    /\ svcThrown = <<>>
    /\ runPc = "idle"
    /\ settings = DefaultSettings
    /\ skipPreview = FALSE
    /\ workspaceOpen = TRUE
    /\ runWorkspace = EmptyInfo
    /\ runStructure = <<>>
    /\ validations = 0
    /\ runCalls = <<>>
    /\ previews = 0
    /\ dockerFiles = <<>>
    /\ messages = <<>>
    /\ disk = EmptyDisk
    /\ filesToWrite = <<>>
    /\ writeAttempts = <<>>
    /\ confirmed = "no"
    /\ existingFiles = <<>>
    /\ newFiles = <<>>
    /\ overwriteChoice = ""
    /\ pvPc = "idle"
    /\ resolved = FALSE
    /\ panelDisposed = FALSE
    /\ timeoutPending = FALSE
    /\ disposeTimers = 0
    /\ pvResolveCalls = <<>>
    /\ pvEvents = <<>>
    /\ pvReturn = <<>>
    /\ trPc = "idle"
    /\ trFile = [path |-> "", content |-> <<>>]
    /\ trEntry = <<>>
    /\ dtDockerfile = <<>>
    /\ cfgRuns = 0
    /\ cfgCalls = <<>>

\* The response parser over every bounded raw response
SpecParse == PRInit /\ [][PRNext]_vars

\* After construction: the clients exist for the keys that are set
SVCInit ==
    /\ lcPc = "idle"
    /\ lcDetection = [frontend |-> "unknown", backend |-> "unknown"]
    /\ projectType = ""
    /\ attempts = 0
    /\ result = <<>>
    /\ lcInvocations = 0
    /\ lcDelays = <<>>
    /\ lcErrors = <<>>
    /\ lcResponses = <<>>
    /\ lcReturn = <<>>
    /\ lcThrown = <<>>
    /\ dtPc = "idle"
    /\ dtFiles = {}
    /\ dtInfo = EmptyInfo
    /\ dtStructure = <<>>
    /\ fbStructure = EmptyStructure
    /\ fbSlot = ""
    /\ fbText = <<>>
    /\ prPc = "idle"
    /\ prBlocks = <<>>
    /\ prSep = <<>>
    /\ prResponse = <<>>
    /\ prStructure = EmptyStructure
    /\ prResult = <<>>
    /\ svcPc = "ready"
    /\ apiProvider \in ApiProviders
    /\ openaiClient \in BOOLEAN
    /\ geminiClient \in BOOLEAN
    /\ svcStructure \in {BuildStructure({}, info) : info \in PrWorkspaces}
    /\ svcCalls = <<>>
    /\ svcReturn = <<>>
    /\ svcThrown = <<>>
    /\ runPc = "idle"
    /\ settings = DefaultSettings
    /\ skipPreview = FALSE
    /\ workspaceOpen = TRUE
    /\ runWorkspace = EmptyInfo
    /\ runStructure = <<>>
    /\ validations = 0
    /\ runCalls = <<>>
    /\ previews = 0
    /\ dockerFiles = <<>>
    /\ messages = <<>>
    /\ disk = EmptyDisk
    /\ filesToWrite = <<>>
    /\ writeAttempts = <<>>
    /\ confirmed = "no"
    /\ existingFiles = <<>>
    /\ newFiles = <<>>
    /\ overwriteChoice = ""
    /\ pvPc = "idle"
    /\ resolved = FALSE
    /\ panelDisposed = FALSE
    /\ timeoutPending = FALSE
    /\ disposeTimers = 0
    /\ pvResolveCalls = <<>>
    /\ pvEvents = <<>>
    /\ pvReturn = <<>>
    /\ trPc = "idle"
    /\ trFile = [path |-> "", content |-> <<>>]
    /\ trEntry = <<>>
    /\ dtDockerfile = <<>>
    /\ cfgRuns = 0
    /\ cfgCalls = <<>>

\* The simple-mode service
SpecSvc == SVCInit /\ [][SVCNext]_vars

\* A run of the command: the settings, the workspace and the output directory
RUNInit ==
    /\ lcPc = "idle"
    /\ lcDetection = [frontend |-> "unknown", backend |-> "unknown"]
    /\ projectType = ""
    /\ attempts = 0
    /\ result = <<>>
    /\ lcInvocations = 0
    /\ lcDelays = <<>>
    /\ lcErrors = <<>>
    /\ lcResponses = <<>>
    /\ lcReturn = <<>>
    /\ lcThrown = <<>>
    /\ dtPc = "idle"
    /\ dtFiles = {}
    /\ dtInfo = EmptyInfo
    /\ dtStructure = <<>>
    /\ fbStructure = EmptyStructure
    /\ fbSlot = ""
    /\ fbText = <<>>
    /\ prPc = "idle"
    /\ prBlocks = <<>>
    /\ prSep = <<>>
    /\ prResponse = <<>>
    /\ prStructure = EmptyStructure
    /\ prResult = <<>>
    /\ svcPc = "idle"
    /\ apiProvider = "openai"
    /\ openaiClient = FALSE
    /\ geminiClient = FALSE
    /\ svcStructure = EmptyStructure
    /\ svcCalls = <<>>
    /\ svcReturn = <<>>
    /\ svcThrown = <<>>
    /\ runPc = "start"
    /\ settings \in SettingsValues
    /\ skipPreview \in BOOLEAN
    /\ workspaceOpen \in BOOLEAN
    /\ runWorkspace \in PrWorkspaces
    /\ runStructure = <<>>
    /\ validations = 0
    /\ runCalls = <<>>
    /\ previews = 0
    /\ dockerFiles = <<>>
    /\ messages = <<>>
    /\ disk \in Disks
    /\ filesToWrite = <<>>
    /\ writeAttempts = <<>>
    /\ confirmed = "no"
    /\ existingFiles = <<>>
    /\ newFiles = <<>>
    /\ overwriteChoice = ""
    /\ pvPc = "idle"
    /\ resolved = FALSE
    /\ panelDisposed = FALSE
    /\ timeoutPending = FALSE
    /\ disposeTimers = 0
    /\ pvResolveCalls = <<>>
    /\ pvEvents = <<>>
    /\ pvReturn = <<>>
    /\ trPc = "idle"
    /\ trFile = [path |-> "", content |-> <<>>]
    /\ trEntry = <<>>
    /\ dtDockerfile = <<>>
    /\ cfgRuns = 0
    /\ cfgCalls = <<>>

\* The analyzeProject command
SpecRun == RUNInit /\ [][RUNNext]_vars

PVInit ==
    /\ lcPc = "idle"
    /\ lcDetection = [frontend |-> "unknown", backend |-> "unknown"]
    /\ projectType = ""
    /\ attempts = 0
    /\ result = <<>>
    /\ lcInvocations = 0
    /\ lcDelays = <<>>
    /\ lcErrors = <<>>
    /\ lcResponses = <<>>
    /\ lcReturn = <<>>
    /\ lcThrown = <<>>
    /\ dtPc = "idle"
    /\ dtFiles = {}
    /\ dtInfo = EmptyInfo
    /\ dtStructure = <<>>
    /\ fbStructure = EmptyStructure
    /\ fbSlot = ""
    /\ fbText = <<>>
    /\ prPc = "idle"
    /\ prBlocks = <<>>
    /\ prSep = <<>>
    /\ prResponse = <<>>
    /\ prStructure = EmptyStructure
    /\ prResult = <<>>
    /\ svcPc = "idle"
    /\ apiProvider = "openai"
    /\ openaiClient = FALSE
    /\ geminiClient = FALSE
    /\ svcStructure = EmptyStructure
    /\ svcCalls = <<>>
    /\ svcReturn = <<>>
    /\ svcThrown = <<>>
    /\ runPc = "idle"
    /\ settings = DefaultSettings
    /\ skipPreview = FALSE
    /\ workspaceOpen = TRUE
    /\ runWorkspace = EmptyInfo
    /\ runStructure = <<>>
    /\ validations = 0
    /\ runCalls = <<>>
    /\ previews = 0
    /\ dockerFiles = <<>>
    /\ messages = <<>>
    /\ disk = EmptyDisk
    /\ filesToWrite = <<>>
    /\ writeAttempts = <<>>
    /\ confirmed = "no"
    /\ existingFiles = <<>>
    /\ newFiles = <<>>
    /\ overwriteChoice = ""
    /\ pvPc = "idle"
    /\ resolved = FALSE
    /\ panelDisposed = FALSE
    /\ timeoutPending = FALSE
    /\ disposeTimers = 0
    /\ pvResolveCalls = <<>>
    /\ pvEvents = <<>>
    /\ pvReturn = <<>>
    /\ trPc = "idle"
    /\ trFile = [path |-> "", content |-> <<>>]
    /\ trEntry = <<>>
    /\ dtDockerfile = <<>>
    /\ cfgRuns = 0
    /\ cfgCalls = <<>>

\* One showPreview call
SpecPreview == PVInit /\ [][PVNext]_vars

TRInit ==
    /\ lcPc = "idle"
    /\ lcDetection = [frontend |-> "unknown", backend |-> "unknown"]
    /\ projectType = ""
    /\ attempts = 0
    /\ result = <<>>
    /\ lcInvocations = 0
    /\ lcDelays = <<>>
    /\ lcErrors = <<>>
    /\ lcResponses = <<>>
    /\ lcReturn = <<>>
    /\ lcThrown = <<>>
    /\ dtPc = "idle"
    /\ dtFiles = {}
    /\ dtInfo = EmptyInfo
    /\ dtStructure = <<>>
    /\ fbStructure = EmptyStructure
    /\ fbSlot = ""
    /\ fbText = <<>>
    /\ prPc = "idle"
    /\ prBlocks = <<>>
    /\ prSep = <<>>
    /\ prResponse = <<>>
    /\ prStructure = EmptyStructure
    /\ prResult = <<>>
    /\ svcPc = "idle"
    /\ apiProvider = "openai"
    /\ openaiClient = FALSE
    /\ geminiClient = FALSE
    /\ svcStructure = EmptyStructure
    /\ svcCalls = <<>>
    /\ svcReturn = <<>>
    /\ svcThrown = <<>>
    /\ runPc = "idle"
    /\ settings = DefaultSettings
    /\ skipPreview = FALSE
    /\ workspaceOpen = TRUE
    /\ runWorkspace = EmptyInfo
    /\ runStructure = <<>>
    /\ validations = 0
    /\ runCalls = <<>>
    /\ previews = 0
    /\ dockerFiles = <<>>
    /\ messages = <<>>
    /\ disk = EmptyDisk
    /\ filesToWrite = <<>>
    /\ writeAttempts = <<>>
    /\ confirmed = "no"
    /\ existingFiles = <<>>
    /\ newFiles = <<>>
    /\ overwriteChoice = ""
    /\ pvPc = "idle"
    /\ resolved = FALSE
    /\ panelDisposed = FALSE
    /\ timeoutPending = FALSE
    /\ disposeTimers = 0
    /\ pvResolveCalls = <<>>
    /\ pvEvents = <<>>
    /\ pvReturn = <<>>
    /\ trPc = "ready"
    /\ trFile \in {[path |-> p, content |-> ContentOfLength(n)] :
                    p \in SampledPaths, n \in 0..MaxContentLen}
    /\ trEntry = <<>>
    /\ dtDockerfile = <<>>
    /\ cfgRuns = 0
    /\ cfgCalls = <<>>

\* One entry of included_files
SpecTruncate == TRInit /\ [][TRNext]_vars

CFGInit ==
    /\ lcPc = "idle"
    /\ lcDetection = [frontend |-> "unknown", backend |-> "unknown"]
    /\ projectType = ""
    /\ attempts = 0
    /\ result = <<>>
    /\ lcInvocations = 0
    /\ lcDelays = <<>>
    /\ lcErrors = <<>>
    /\ lcResponses = <<>>
    /\ lcReturn = <<>>
    /\ lcThrown = <<>>
    /\ dtPc = "idle"
    /\ dtFiles = {}
    /\ dtInfo = EmptyInfo
    /\ dtStructure = <<>>
    /\ fbStructure = EmptyStructure
    /\ fbSlot = ""
    /\ fbText = <<>>
    /\ prPc = "idle"
    /\ prBlocks = <<>>
    /\ prSep = <<>>
    /\ prResponse = <<>>
    /\ prStructure = EmptyStructure
    /\ prResult = <<>>
    /\ svcPc = "idle"
    /\ apiProvider = "openai"
    /\ openaiClient = FALSE
    /\ geminiClient = FALSE
    /\ svcStructure = EmptyStructure
    /\ svcCalls = <<>>
    /\ svcReturn = <<>>
    /\ svcThrown = <<>>
    /\ runPc = "idle"
    /\ settings = DefaultSettings
    /\ skipPreview = FALSE
    /\ workspaceOpen = TRUE
    /\ runWorkspace = EmptyInfo
    /\ runStructure = <<>>
    /\ validations = 0
    /\ runCalls = <<>>
    /\ previews = 0
    /\ dockerFiles = <<>>
    /\ messages = <<>>
    /\ disk = EmptyDisk
    /\ filesToWrite = <<>>
    /\ writeAttempts = <<>>
    /\ confirmed = "no"
    /\ existingFiles = <<>>
    /\ newFiles = <<>>
    /\ overwriteChoice = ""
    /\ pvPc = "idle"
    /\ resolved = FALSE
    /\ panelDisposed = FALSE
    /\ timeoutPending = FALSE
    /\ disposeTimers = 0
    /\ pvResolveCalls = <<>>
    /\ pvEvents = <<>>
    /\ pvReturn = <<>>
    /\ trPc = "idle"
    /\ trFile = [path |-> "", content |-> <<>>]
    /\ trEntry = <<>>
    /\ dtDockerfile = <<>>
    /\ cfgRuns = 0
    /\ cfgCalls = <<>>

\* The configureApiKeys command, from the default settings
SpecConfigure == CFGInit /\ [][CFGNext]_vars

\* All components side by side
Init ==
    /\ lcPc = "idle"
    /\ lcDetection = [frontend |-> "unknown", backend |-> "unknown"]
    /\ projectType = ""
    /\ attempts = 0
    /\ result = <<>>
    /\ lcInvocations = 0
    /\ lcDelays = <<>>
    /\ lcErrors = <<>>
    /\ lcResponses = <<>>
    /\ lcReturn = <<>>
    /\ lcThrown = <<>>
    /\ dtPc = "ready"
    /\ dtFiles \in FileLists
    /\ dtInfo \in PackageInfos
    /\ dtStructure = <<>>
    /\ fbStructure \in FbStructures
    /\ fbSlot = ""
    /\ fbText = <<>>
    /\ prPc = "ready"
    /\ prBlocks \in SeqsUpTo(BlockKinds, MaxBlocks)
    /\ prSep \in Separators
    /\ prResponse = RenderResponse(prBlocks, prSep)
    /\ prStructure \in {BuildStructure({}, info) : info \in PrWorkspaces}
    /\ prResult = <<>>
    /\ svcPc = "ready"
    /\ apiProvider \in ApiProviders
    /\ openaiClient \in BOOLEAN
    /\ geminiClient \in BOOLEAN
    /\ svcStructure \in {BuildStructure({}, info) : info \in PrWorkspaces}
    /\ svcCalls = <<>>
    /\ svcReturn = <<>>
    /\ svcThrown = <<>>
    /\ runPc = "start"
    /\ settings \in SettingsValues
    /\ skipPreview \in BOOLEAN
    /\ workspaceOpen \in BOOLEAN
    /\ runWorkspace \in PrWorkspaces
    /\ runStructure = <<>>
    /\ validations = 0
    /\ runCalls = <<>>
    /\ previews = 0
    /\ dockerFiles = <<>>
    /\ messages = <<>>
    /\ disk \in Disks
    /\ filesToWrite = <<>>
    /\ writeAttempts = <<>>
    /\ confirmed = "no"
    /\ existingFiles = <<>>
    /\ newFiles = <<>>
    /\ overwriteChoice = ""
    /\ pvPc = "idle"
    /\ resolved = FALSE
    /\ panelDisposed = FALSE
    /\ timeoutPending = FALSE
    /\ disposeTimers = 0
    /\ pvResolveCalls = <<>>
    /\ pvEvents = <<>>
    /\ pvReturn = <<>>
    /\ trPc = "idle"
    /\ trFile = [path |-> "", content |-> <<>>]
    /\ trEntry = <<>>
    /\ dtDockerfile = <<>>
    /\ cfgRuns = 0
    /\ cfgCalls = <<>>

Next == LCNext \/ DTNext \/ FBNext \/ PRNext \/ SVCNext \/ RUNNext \/ PVNext \/ TRNext
           \/ CFGNext

Spec == Init /\ [][Next]_vars

-----------------------------------------------------------------------------
(* Properties *)

\* C1: when every attempt of the structured-chain loop fails, the chain is
\* invoked exactly 3 times and never a 4th, no result is returned, and the one
\* error thrown to the caller carries the error of the third attempt.
C1_RetryExhaustion ==
    /\ lcInvocations <= 3
    /\ Len(lcErrors) <= 3
    /\ Len(lcErrors) = 3 =>
          /\ lcPc = "threw"
          /\ lcInvocations = 3
          /\ lcReturn = <<>>
          /\ Len(lcThrown) = 2
          /\ lcThrown[2] = lcErrors[3]
    /\ (lcPc = "threw" /\ result = <<>>) => Len(lcErrors) = 3

\* Three failures of the three kinds (rejected call, no braces, undecodable JSON)
C1_Witness ==
    /\ lcPc = "threw"
    /\ lcInvocations = 3
    /\ lcErrors = <<"ProviderError: rate limit",
                    "Error: No valid JSON found in response",
                    "SyntaxError: Unexpected token in JSON">>

\* C2: after the k-th failed attempt (k = 1, 2) the loop waits k * 1000 ms
\* before attempt k+1 starts: the delays are 1000 then 2000, strictly
\* increasing, and every failure that is retried is followed by its delay.
C2_RetryDelays ==
    /\ \A k \in 1..Len(lcDelays) : lcDelays[k] = k * 1000
    /\ \A i, j \in 1..Len(lcDelays) : i < j => lcDelays[i] < lcDelays[j]
    /\ lcPc \in {"loop", "await", "delay"} => Len(lcDelays) = Len(lcErrors)
    /\ lcPc = "await" => Len(lcDelays) = lcInvocations - 1

\* The third attempt is under way after both delays
C2_Witness ==
    /\ lcPc = "await"
    /\ lcInvocations = 3
    /\ lcDelays = <<1000, 2000>>


\* C3: in simple mode one invocation of generateDockerFiles issues at most one
\* provider call; a rejected call is the last one, and the invocation ends by
\* throwing an error, without a second call and without returning files.
C3_SimpleModeNoRetry ==
    /\ Len(svcCalls) <= 1
    /\ \A i \in 1..Len(svcCalls) :
          svcCalls[i].outcome = "rejected" =>
             /\ i = Len(svcCalls)
             /\ svcPc = "threw"
             /\ svcReturn = <<>>
             /\ Len(svcThrown) = 2
             /\ svcThrown[1] = "Failed to generate Docker files: "
    /\ svcPc = "threw" => svcReturn = <<>>
    /\ svcPc = "returned" => (svcThrown = <<>> /\ Len(svcCalls) = 1)

\* The single Gemini call was rejected and the error reached the caller
C3_Witness ==
    /\ svcPc = "threw"
    /\ svcCalls = <<[provider |-> "gemini", outcome |-> "rejected"]>>
    /\ svcThrown = <<"Failed to generate Docker files: ", "429 Rate limit">>

\* The first block of the response whose tag, case folded, is one of `tags`
TaggedContents(blocks, tags) ==
    {Trim(blocks[i].content) : i \in {k \in 1..Len(blocks) :
        [j \in 1..Len(blocks[k].tag) |-> LowerTag(blocks[k].tag[j])] \in tags}}

\* C4: for every raw response and descriptor parseResponse returns a value in
\* which dockerfile, dockerCompose and dockerIgnore are all non-empty; the build
\* and composition slots are a block's content or the fallback template.
C4_ParseTotal ==
    prPc = "done" =>
       /\ Len(prResult) = 1
       /\ ~Falsy(prResult[1].dockerfile)
       /\ ~Falsy(prResult[1].dockerCompose)
       /\ ~Falsy(prResult[1].dockerIgnore)
       /\ prResult[1].dockerfile \in
             {generateFallbackDockerfile(prStructure)}
             \cup TaggedContents(prBlocks, DockerfileTags)
       /\ prResult[1].dockerCompose \in
             {generateFallbackCompose(prStructure)}
             \cup TaggedContents(prBlocks, ComposeTags)

\* The empty response: every slot comes from the fallback templates
C4_Witness ==
    /\ prPc = "done"
    /\ prResponse = <<>>
    /\ prResult[1].dockerfile = generateFallbackDockerfile(prStructure)
    /\ prResult[1].dockerIgnore = generateFallbackDockerignore

\* Four non-empty blocks in the order the prompt mandates
MandatedOrder(blocks) ==
    /\ Len(blocks) = 4
    /\ blocks[1].tag = <<"dockerfile">>
    /\ blocks[2].tag = <<"yaml">>
    /\ blocks[3].tag = <<>>
    /\ blocks[4].tag = <<"nginx">>
    /\ \A i \in 1..4 : blocks[i].content # <<>>

\* C5: round trip: for a response made of the four well-formed, non-empty
\* blocks in the mandated order, the four slots returned are exactly the
\* contents of the four blocks.
C5_RoundTrip ==
    (prPc = "done" /\ MandatedOrder(prBlocks)) =>
       /\ prResult[1].dockerfile = prBlocks[1].content
       /\ prResult[1].dockerCompose = prBlocks[2].content
       /\ prResult[1].dockerIgnore = prBlocks[3].content
       /\ prResult[1].nginxConf = prBlocks[4].content

\* One non-empty block each for build definition, composition and exclusion
\* list, in any order, and no nginx block
ThreeBlocksNoNginx(blocks) ==
    /\ Len(blocks) = 3
    /\ \E i, j, k \in 1..3 :
          /\ blocks[i].tag = <<"dockerfile">>
          /\ blocks[j].tag = <<"yaml">>
          /\ blocks[k].tag = <<>>
    /\ \A i \in 1..3 : blocks[i].content # <<>>

\* C6: partial-failure fallback: with a frontend and a response that holds the
\* three other blocks but no nginx block, nginxConf is the fallback server
\* block and the other slots are the contents of their blocks.
C6_PartialFallback ==
    (prPc = "done" /\ Truthy(prStructure.frontend) /\ ThreeBlocksNoNginx(prBlocks)) =>
       /\ ~Falsy(prResult[1].nginxConf)
       /\ Includes(prResult[1].nginxConf, <<"server {">>)
       /\ \A i \in 1..3 :
             /\ prBlocks[i].tag = <<"dockerfile">> =>
                   prResult[1].dockerfile = prBlocks[i].content
             /\ prBlocks[i].tag = <<"yaml">> =>
                   prResult[1].dockerCompose = prBlocks[i].content
             /\ prBlocks[i].tag = <<>> =>
                   prResult[1].dockerIgnore = prBlocks[i].content

\* C7: the returned artifact set passes the structural sanity checks: the
\* dockerfile holds a FROM directive, the composition a services: section and
\* nginxConf, when present, a server block.
C7_SanityChecked ==
    prPc = "done" =>
       /\ Includes(prResult[1].dockerfile, <<"FROM">>)
       /\ Includes(prResult[1].dockerCompose, <<"services:">>)
       /\ prResult[1].nginxConf # <<UNDEFINED>> =>
             Includes(prResult[1].nginxConf, <<"server {">>)

\* C8: for every descriptor each fallback generator returns non-empty text that
\* passes the sanity check of its slot.
C8_FallbackValid ==
    /\ fbSlot = "dockerfile" => (fbText # <<>> /\ Includes(fbText, <<"FROM">>))
    /\ fbSlot = "dockerCompose" => (fbText # <<>> /\ Includes(fbText, <<"services:">>))
    /\ fbSlot = "nginxConf" => (fbText # <<>> /\ Includes(fbText, <<"server {">>))
    /\ fbSlot = "dockerIgnore" => fbText # <<>>

\* The build definition of a descriptor with a frontend, a database and an
\* environment file but no manifest at all
C8_Witness ==
    /\ fbSlot = "dockerfile"
    /\ fbStructure.frontend = "vite"
    /\ fbStructure.database = "mongodb"
    /\ fbStructure.hasEnvFile
    /\ fbStructure.dependencies.packageJson = <<>>
    /\ fbStructure.dependencies.requirementsTxt = <<>>
    /\ Includes(fbText, <<"FROM">>)

\* C9: the project type is a function of frontend/backend presence only:
\* fullstack iff both were detected, frontend iff only a frontend, backend iff
\* only a backend.
C9_TypeFromPresence ==
    dtPc = "done" =>
       LET st == dtStructure[1]
           hasFrontend == Truthy(st.frontend)
           hasBackend == Truthy(st.backend)
       IN  /\ st.projectType = "fullstack" <=> (hasFrontend /\ hasBackend)
           /\ st.projectType = "frontend" <=> (hasFrontend /\ ~hasBackend)
           /\ st.projectType = "backend" <=> (~hasFrontend /\ hasBackend)

\* The build output directory the claim gives for a framework
ClaimedBuildDir(frontend) ==
    CASE frontend \in {"vite", "react-vite"} -> "dist"
      [] frontend = "react" -> "build"
      [] frontend = "nextjs" -> ".next"
      [] frontend \in {"angular", "vue"} -> "dist"

ClaimedFrameworks == {"vite", "react-vite", "react", "nextjs", "angular", "vue"}

\* C10: getBuildDirectory yields dist for a Vite-style frontend, build for
\* react, .next for nextjs, dist for angular and vue; and the fallback build
\* definition of a Node project with such a frontend copies from that directory.
C10_BuildDirectory ==
    fbStructure.frontend \in ClaimedFrameworks =>
       /\ fbSlot = "buildDir" => fbText = <<ClaimedBuildDir(fbStructure.frontend)>>
       /\ (fbSlot = "dockerfile" /\ fbStructure.dependencies.packageJson # <<>>) =>
             Includes(fbText, <<"COPY --from=build /app/",
                                ClaimedBuildDir(fbStructure.frontend),
                                " /usr/share/nginx/html">>)

\* The fallback build definition of a Next.js project copies from .next
C10_Witness ==
    /\ fbSlot = "dockerfile"
    /\ fbStructure.frontend = "nextjs"
    /\ fbStructure.dependencies.packageJson # <<>>
    /\ Includes(fbText, <<"COPY --from=build /app/", ".next", " /usr/share/nginx/html">>)

\* C11: a package.json that declares a meta-framework (next, nuxt) together
\* with a view library (react, vue) is classified with the meta-framework as
\* frontend and with type fullstack.
C11_MetaFrameworkOverrides ==
    (dtPc = "done" /\ dtInfo.packageJson # <<>>) =>
       LET deps == MergedDeps(dtInfo.packageJson[1])
           st == dtStructure[1]
       IN  /\ ("next" \in deps /\ deps \cap {"react", "vue"} # {}) =>
                 (st.frontend = "nextjs" /\ st.projectType = "fullstack")
           /\ ("nuxt" \in deps /\ "next" \notin deps /\ deps \cap {"react", "vue"} # {}) =>
                 (st.frontend = "nuxt" /\ st.projectType = "fullstack")

\* Frontend frameworks with a compile step and backends of a compiled nature
CompiledFrontends == {"react", "vue", "angular", "nextjs", "nuxt"}
CompiledBackends == {"nestjs", "spring-boot", "go"}

\* C12: hasMultiStage is true exactly when the type is fullstack, or the
\* frontend needs a compile step, or the backend is of a compiled nature
\* (Go and Spring Boot included).
C12_MultiStagePolicy ==
    dtPc = "done" =>
       LET st == dtStructure[1]
       IN  st.hasMultiStage <=>
              \/ st.projectType = "fullstack"
              \/ st.frontend \in CompiledFrontends
              \/ st.backend \in CompiledBackends

\* The databases the analyzer detects and the image the claim gives each
DetectedDatabases == {"postgresql", "mysql", "mongodb"}
ClaimedImage(database) ==
    CASE database = "postgresql" -> "postgres:15-alpine"
      [] database = "mysql" -> "mysql:8.0"
      [] database = "mongodb" -> "mongo:6.0"

\* C13: the fallback composition holds a database service block with the image
\* of the detected database, a named volume and a depends_on edge of the app
\* service on the database when a database was detected, and none of the three
\* when no database was detected, in the proxy and in the no-proxy branch.
C13_DatabaseEmission ==
    fbSlot = "dockerCompose" =>
       LET db == fbStructure.database
       IN  /\ db \in DetectedDatabases =>
                 /\ Includes(fbText, <<NL, "  ", db, ":", NL,
                                       "    image: ", ClaimedImage(db), NL>>)
                 /\ Includes(fbText, <<"      - db:/var/lib/postgresql/data">>)
                 /\ Includes(fbText, <<NL, "volumes:", NL, "  db:">>)
                 /\ Includes(fbText, <<NL, "    depends_on:", NL, "      - ", db>>)
           /\ db = UNDEFINED =>
                 /\ ~Includes(fbText, <<"    image: ">>)
                 /\ ~Includes(fbText, <<"      - db:/var/lib/postgresql/data">>)
                 /\ ~Includes(fbText, <<"volumes:">>)
                 /\ ~Includes(fbText, <<"    depends_on:", NL, "      - ">>)

\* A MySQL service emitted behind the proxy, and one in the no-proxy branch
C13_Witness ==
    /\ fbSlot = "dockerCompose"
    /\ fbStructure.database = "mysql"
    /\ fbStructure.frontend \in {"react", UNDEFINED}
    /\ Includes(fbText, <<"    image: ", "mysql:8.0">>)

\* A frontend-only descriptor with a bundler-style (Vite) frontend
BundlerFrontendOnly(st) ==
    /\ st.frontend \in {"vite", "react-vite"}
    /\ st.backend = UNDEFINED
    /\ st.database = UNDEFINED

\* The number of occurrences of a token in a text
Occurrences(text, token) == Cardinality({i \in 1..Len(text) : text[i] = token})

\* What the claim says of the two fallback definitions
FrontendOnlyArtifacts ==
    /\ fbSlot = "dockerfile" =>
          /\ Occurrences(fbText, "FROM") = 2
          /\ Includes(fbText, <<"FROM", " nginx:alpine", NL,
                                "COPY --from=build /app/", "dist",
                                " /usr/share/nginx/html">>)
    /\ fbSlot = "dockerCompose" =>
          /\ Includes(fbText, <<"  app:", NL, "    build: .", NL, "    expose:", NL>>)
          /\ Includes(fbText, <<"  nginx:", NL, "    image: nginx:alpine", NL,
                                "    ports:", NL, "      - \"80:80\"">>)
          /\ Occurrences(fbText, "    ports:") = 1
          /\ ~Includes(fbText, <<"    image: ">>)
          /\ ~Includes(fbText, <<"volumes:">>)

HasNginxConf(files) == files.nginxConf # <<UNDEFINED>> /\ files.nginxConf # <<>>

\* C15: the nginxConf slot of the returned artifact set is present only when
\* the descriptor has a frontend and includeNginx is true; otherwise it is
\* absent and no nginx.conf is written.
C15_NginxOnlyWhenEnabled ==
    dockerFiles # <<>> =>
       LET enabled == Truthy(runStructure[1].frontend) /\ settings.includeNginx
       IN  /\ HasNginxConf(dockerFiles[1]) => enabled
           /\ (\E i \in 1..Len(writeAttempts) : writeAttempts[i].name = "nginx.conf")
                 => enabled

\* The position where the braces opened at position `from` are balanced again
\* (0 when they never are)
RECURSIVE BalancedEnd(_, _, _)
BalancedEnd(text, i, depth) ==
    IF i > Len(text) THEN 0
    ELSE IF text[i] = "{" THEN BalancedEnd(text, i + 1, depth + 1)
    ELSE IF text[i] = "}"
    THEN (IF depth = 1 THEN i ELSE BalancedEnd(text, i + 1, depth - 1))
    ELSE BalancedEnd(text, i + 1, depth)

\* The first balanced brace-delimited substring of a text (<<>> when none)
FirstBalanced(text) ==
    LET opens == {i \in 1..Len(text) : text[i] = "{"}
    IN  IF opens = {} THEN <<>>
        ELSE LET a == CHOOSE i \in opens : \A j \in opens : i <= j
                 b == BalancedEnd(text, a, 0)
             IN  IF b = 0 THEN <<>> ELSE SubSeq(text, a, b)

\* C16: an attempt whose response holds a valid JSON object as its first
\* balanced brace-delimited substring decodes that object and succeeds, also
\* when further text with a closing brace follows the object.
C16_FirstBalancedObject ==
    lcResponses # <<>> =>
       LET content == lcResponses[Len(lcResponses)]
           first == FirstBalanced(content)
       IN  (first # <<>> /\ JsonValid(first)) => result = <<JsonParse(first)>>

\* The slots of a decoded object that fail the structural sanity check
FailsSanity(obj, key, keyword) ==
    obj[key] = <<UNDEFINED>> \/ ~Includes(obj[key], <<keyword>>)

\* C17: a decoded response with a slot that fails the sanity check (dockerfile
\* without FROM, docker_compose without services:, nginx_conf without server {,
\* a missing slot included) does not raise: a result is returned and carries a
\* warning for the slot.
C17_SanityWarnsNotRaises ==
    result # <<>> =>
       LET obj == result[1]
           warned(w) == \E i \in 1..Len(lcReturn[1].warnings) : lcReturn[1].warnings[i] = w
       IN  /\ lcPc = "returned"
           /\ lcReturn # <<>>
           /\ FailsSanity(obj, "dockerfile", "FROM") =>
                 warned("Dockerfile may be incomplete - please review")
           /\ FailsSanity(obj, "docker_compose", "services:") =>
                 warned("Docker Compose may be incomplete - please review")
           /\ FailsSanity(obj, "nginx_conf", "server {") =>
                 warned("Nginx configuration may be incomplete - please review")

\* The active provider has no usable API key (none, or a blank one)
NoApiKey(cfg) ==
    \/ cfg.apiProvider \notin {"openai", "gemini"}
    \/ (cfg.apiProvider = "openai" /\ Trim(cfg.openaiApiKey) = <<>>)
    \/ (cfg.apiProvider = "gemini" /\ Trim(cfg.geminiApiKey) = <<>>)

\* A run with an open workspace that went through validation and is left
\* without a key: nothing was generated, previewed or written, and the error
\* with the Configure Now action was shown
NoKeyNothingDone ==
    (workspaceOpen /\ runPc # "start" /\ NoApiKey(settings)) =>
       /\ runCalls = <<>>
       /\ previews = 0
       /\ dockerFiles = <<>>
       /\ writeAttempts = <<>>
       /\ \A n \in OutputNames : disk[n] # "new"
       /\ runPc \in {"askConfigure", "configure", "done"}
       /\ \E i \in 1..Len(messages) :
             /\ messages[i].kind = "error"
             /\ "Configure Now" \in messages[i].items
             /\ messages[i].text[1] = settings.apiProvider

\* Validation runs at the start of a run and after configureApiKeys, which is
\* entered only by the Configure Now choice on the error
ValidationOnlyOnRequest ==
    /\ validations' # validations => runPc \in {"start", "configure", "cancelled"}
    /\ (runPc' = "configure" /\ runPc # "configure") =>
          (runPc = "askConfigure" /\ UNCHANGED <<validations, settings, messages>>)

\* C18: in a run where the active provider has no non-empty API key when
\* validation ends, the model is never invoked, no preview is shown and no file
\* is written; the error with the Configure Now action is shown, and validation
\* is repeated only after the user chose that action.
C18_NoKeyNoGeneration == []NoKeyNothingDone /\ [][ValidationOnlyOnRequest]_vars

\* The user chose Configure Now, saved a blank key, and validation failed again
C18_Witness ==
    /\ runPc = "done"
    /\ validations = 2
    /\ settings.apiProvider = "openai"
    /\ settings.openaiApiKey = <<SP>>
    /\ Len(messages) >= 2
    /\ runCalls = <<>>

\* The provider call of the run was rejected and the run is over
GenerationFailed ==
    /\ runPc = "done"
    /\ runCalls # <<>>
    /\ runCalls[Len(runCalls)].outcome = "rejected"

\* The error messages of the run that report a failed generation
FailureReports ==
    {i \in 1..Len(messages) :
        /\ messages[i].kind = "error"
        /\ messages[i].text[1] = "Failed to generate Docker files: "}

\* Nothing was previewed or written, and one failure was reported
FailedRunIsClean ==
    /\ previews = 0
    /\ dockerFiles = <<>>
    /\ filesToWrite = <<>>
    /\ writeAttempts = <<>>
    /\ \A n \in OutputNames : disk[n] # "new"
    /\ Cardinality(FailureReports) = 1

\* C19 as stated: when generation fails, no preview and no write happen, no
\* file is written, and exactly one error message is shown, which includes the
\* text of the underlying cause.
C19_FailureShowsCause ==
    GenerationFailed =>
       /\ FailedRunIsClean
       /\ \A i \in FailureReports :
             Includes(messages[i].text, <<runCalls[Len(runCalls)].error>>)

\* C19 (amended): the same, where the cause text is included when the provider
\* rejected with an Error instance, and is the fixed text Unknown error when it
\* rejected with any other value.
C19_FailureReported ==
    GenerationFailed =>
       /\ FailedRunIsClean
       /\ \A i \in FailureReports :
             LET e == runCalls[Len(runCalls)].error
             IN  IF e = "<not an Error>"
                 THEN Includes(messages[i].text, <<"Unknown error">>)
                 ELSE Includes(messages[i].text, <<e>>)

\* A run whose provider call was rejected with 401 after a reconfiguration
C19_Witness ==
    /\ GenerationFailed
    /\ validations = 2
    /\ runCalls[Len(runCalls)].error = "401 Unauthorized"
    /\ \E i \in FailureReports : Includes(messages[i].text, <<"401 Unauthorized">>)

\* The failure of attempt i was reported for its file
ReportedFor(i) ==
    \E m \in 1..Len(messages) :
       /\ messages[m].kind = "error"
       /\ Len(messages[m].text) >= 2
       /\ messages[m].text[1] = "Failed to write "
       /\ messages[m].text[2] = writeAttempts[i].name

\* C20: in writeFiles a failed write is reported for its file and does not end
\* the loop: the files of the list are attempted one after the other, the ones
\* after a failure included, and writeFiles does not raise (writeDockerFiles
\* goes on to its success message and analyzeProject reports no failure).
C20_WriteFailureIsolated ==
    /\ Len(writeAttempts) <= Len(filesToWrite)
    /\ \A i \in 1..Len(writeAttempts) :
          /\ writeAttempts[i].name = filesToWrite[i]
          /\ ~writeAttempts[i].ok => ReportedFor(i)
    /\ (runPc = "done" /\ filesToWrite # <<>>) =>
          /\ Len(writeAttempts) = Len(filesToWrite)
          /\ FailureReports = {}
          /\ messages[Len(messages)].kind = "info"

\* The first write of four failed and the three after it were still made
C20_Witness ==
    /\ runPc = "done"
    /\ Len(filesToWrite) = 4
    /\ Len(writeAttempts) = 4
    /\ ~writeAttempts[1].ok
    /\ writeAttempts[4].ok
    /\ disk["nginx.conf"] = "new"

\* The names writeFiles has attempted so far
AttemptedNames == {writeAttempts[i].name : i \in 1..Len(writeAttempts)}

\* C21: with overwriteFiles false, a file that existed at the existence check
\* is written only after 'Overwrite All'; after 'Skip Existing' the list of
\* writeFiles is exactly the files that did not exist and the existing ones stay
\* as they were; after 'Cancel' or a dismissed dialog nothing is written.
C21_OverwriteDialog ==
    ~settings.overwriteFiles =>
       /\ \A n \in AttemptedNames :
             n \in Range(existingFiles) => overwriteChoice = "Overwrite All"
       /\ overwriteChoice = "Skip Existing" =>
             /\ filesToWrite = newFiles
             /\ AttemptedNames \subseteq Range(newFiles)
             /\ runPc = "done" => AttemptedNames = Range(newFiles)
             /\ \A n \in Range(existingFiles) : disk[n] = "old"
       /\ overwriteChoice \in {"Cancel", UNDEFINED} =>
             /\ runPc = "done"
             /\ writeAttempts = <<>>
             /\ filesToWrite = <<>>
             /\ \A n \in OutputNames : disk[n] # "new"

C21_Witness ==
    /\ ~settings.overwriteFiles
    /\ overwriteChoice = "Skip Existing"
    /\ runPc = "done"
    /\ existingFiles = <<"Dockerfile">>
    /\ \E i \in 1..Len(writeAttempts) :
          writeAttempts[i].ok /\ disk[writeAttempts[i].name] = "new"

\* The callbacks that can decide a preview
DecisiveEvents == {"confirm", "cancel", "dispose", "timeout"}

\* The first deciding callback of a preview ("" when none ran yet)
FirstDecisive ==
    LET idx == {i \in 1..Len(pvEvents) : pvEvents[i] \in DecisiveEvents}
    IN  IF idx = {} THEN ""
        ELSE pvEvents[CHOOSE i \in idx : \A j \in idx : i <= j]

\* C22: showPreview is settled once the 5-minute timer has fired; it settles
\* to true only when a 'confirm' message came before any 'cancel' message,
\* disposal or timeout, and to false in every other case.
C22_PreviewDefaultsToReject ==
    /\ (pvPc # "idle" /\ ~timeoutPending) => pvReturn # <<>>
    /\ pvReturn = <<TRUE>> => FirstDecisive = "confirm"
    /\ FirstDecisive \in {"cancel", "dispose", "timeout"} => pvReturn = <<FALSE>>

\* An open panel decides as C22 says
PreviewDecidedByFirstEvent ==
    pvPc = "waiting" =>
       /\ Len(pvResolveCalls) <= 1
       /\ pvReturn = IF FirstDecisive = "" THEN <<>> ELSE <<FirstDecisive = "confirm">>

PreviewDecisionKept ==
    pvReturn # <<>> => (pvReturn' = pvReturn /\ pvResolveCalls' = pvResolveCalls)

\* C30: the result of showPreview is decided exactly once, by the first of
\* 'confirm' message, 'cancel' message, panel disposal and timeout, whatever the
\* order of the callbacks; later callbacks neither change the value nor call
\* resolve again.
C30_DecidedOnce == []PreviewDecidedByFirstEvent /\ [][PreviewDecisionKept]_vars

C30_Witness ==
    /\ pvEvents = <<"confirm", "cancel", "dispose", "timeout">>
    /\ pvReturn = <<TRUE>>
    /\ pvResolveCalls = <<TRUE>>

\* writeDockerFiles was entered in this run: its existence check has run
WriteDockerFilesCalled == existingFiles # <<>> \/ newFiles # <<>>

\* C23: in a run that is not in direct mode, writeDockerFiles is called only
\* after the user clicked 'Create Files' in the preview (or chose to create the
\* files in the dialog shown when the preview failed); cancel, a closed panel,
\* a timeout or a preview that failed to open never lead to it.
C23_WriteOnlyAfterCreateFiles ==
    (~skipPreview /\ WriteDockerFilesCalled) =>
        confirmed \in {"Create Files", "Yes, Create Files"}

\* The names a success message lists as generated: the tokens between its
\* heading and the 'Skipped existing files' part
ListedAsGenerated(text) ==
    LET skip == {i \in 1..Len(text) : text[i] = ". Skipped existing files: "}
        last == IF skip = {} THEN Len(text)
                ELSE (CHOOSE i \in skip : \A j \in skip : i <= j) - 1
    IN  {text[i] : i \in 2..last} \cap OutputNames

\* C29: the success message of writeDockerFiles lists as generated only files
\* whose write succeeded: a file whose write failed in writeFiles is not in it.
C29_SuccessListsWrittenOnly ==
    \A m \in 1..Len(messages) :
       (messages[m].text # <<>>
          /\ messages[m].text[1] = "Successfully generated Docker files: ") =>
       \A i \in 1..Len(writeAttempts) :
          ~writeAttempts[i].ok =>
             writeAttempts[i].name \notin ListedAsGenerated(messages[m].text)

\* The part of an entry between its opening and its closing fence line
EntryBody == SubSeq(trEntry, 7, Len(trEntry) - 2)
EntryHasMarker ==
    Len(EntryBody) >= 2 /\ SubSeq(EntryBody, Len(EntryBody) - 1, Len(EntryBody))
                              = <<NL, TruncationMarker>>
EntryContent ==
    IF EntryHasMarker THEN SubSeq(EntryBody, 1, Len(EntryBody) - 2) ELSE EntryBody

\* C24: the entry of a sampled file holds at most the first 1000 characters of
\* its content, and the '...(truncated)' marker follows them if and only if the
\* content is longer than 1000 characters; a content of exactly 1000 characters
\* is included whole, without the marker.
C24_TruncationMarked ==
    trPc = "done" =>
       /\ Len(EntryContent) <= 1000
       /\ EntryContent = SubSeq(trFile.content, 1, Len(EntryContent))
       /\ Len(trFile.content) <= 1000 => EntryContent = trFile.content
       /\ Len(trFile.content) > 1000 => Len(EntryContent) = 1000
       /\ EntryHasMarker <=> Len(trFile.content) > 1000

C24_Witness ==
    /\ trPc = "done"
    /\ Len(trFile.content) = 1001
    /\ EntryHasMarker
    /\ Len(EntryContent) = 1000

\* The files the code after the loop builds from a decoded object
FilesFrom(obj) ==
    << [path |-> "Dockerfile", content |-> obj["dockerfile"]],
       [path |-> "docker-compose.yml", content |-> obj["docker_compose"]],
       [path |-> "nginx.conf", content |-> obj["nginx_conf"]],
       [path |-> ".dockerignore", content |-> obj["dockerignore"]],
       [path |-> "README-Docker.md", content |-> obj["notes"]] >>

\* Once an attempt has decoded an object: it was attempt number attempts + 1,
\* no earlier response decoded, the loop is over and what is returned is built
\* from that object
FirstSuccessEndsLoop ==
    result # <<>> =>
       /\ lcInvocations = attempts + 1
       /\ lcInvocations \in 1..3
       /\ Len(lcErrors) = attempts
       /\ lcResponses # <<>>
       /\ \A i \in 1..(Len(lcResponses) - 1) : ~TryDecode(lcResponses[i]).ok
       /\ TryDecode(lcResponses[Len(lcResponses)]).ok
       /\ result[1] = TryDecode(lcResponses[Len(lcResponses)]).obj
       /\ lcPc \in {"returned", "threw"}
       /\ lcReturn # <<>> => lcReturn[1].files = FilesFrom(result[1])

NoAttemptAfterSuccess ==
    result # <<>> =>
       (lcInvocations' = lcInvocations /\ result' = result /\ lcReturn' = lcReturn)

\* C25: the first attempt that yields decodable JSON ends the retry loop: when
\* attempt k is the first success the chain has been invoked exactly k times,
\* no later attempt is made, and the returned files are built from the object
\* decoded in that attempt.
C25_FirstSuccessEndsLoop == []FirstSuccessEndsLoop /\ [][NoAttemptAfterSuccess]_vars

C25_Witness ==
    /\ result # <<>>
    /\ attempts = 1
    /\ lcInvocations = 2
    /\ lcPc = "returned"
    /\ lcReturn # <<>>

\* The port of the last EXPOSE instruction of a Dockerfile ("" when none)
ExposedPort(text) ==
    LET at == {i \in 1..(Len(text) - 1) : text[i] = "EXPOSE "}
    IN  IF at = {} THEN "" ELSE text[(CHOOSE i \in at : \A j \in at : j <= i) + 1]

\* The container port of the first service (app) of a compose text: the entry
\* of expose, or the right-hand side of the entry of ports
ComposeAppPort(text) ==
    LET at == {i \in 1..(Len(text) - 1) : text[i] = "      - \""}
        i == CHOOSE k \in at : \A j \in at : k <= j
    IN  IF at = {} THEN ""
        ELSE IF Len(text) >= i + 3 /\ text[i + 2] = ":" THEN text[i + 3]
        ELSE text[i + 1]

\* The port of the proxy_pass target of an nginx configuration
ProxyPassPort(text) ==
    LET at == {i \in 1..(Len(text) - 3) : text[i] = "        proxy_pass http://"}
    IN  IF at = {} THEN "" ELSE text[(CHOOSE i \in at : TRUE) + 3]

\* C26: for every descriptor the port the fallback Dockerfile EXPOSEs in its
\* final stage is the container port the fallback compose file exposes or
\* publishes for the app service, and the port the fallback nginx
\* configuration proxies to.
C26_FallbackPortsAgree ==
    /\ fbSlot = "dockerfile" =>
          ExposedPort(fbText) = ComposeAppPort(generateFallbackCompose(fbStructure))
    /\ fbSlot = "dockerCompose" =>
          ComposeAppPort(fbText) = ExposedPort(generateFallbackDockerfile(fbStructure))
    /\ (fbSlot = "nginxConf"
          /\ Includes(generateFallbackCompose(fbStructure), <<"  nginx:">>)) =>
          ProxyPassPort(fbText) = ExposedPort(generateFallbackDockerfile(fbStructure))

\* The Python template a fallback Dockerfile was built from ("" when none)
PythonBranch(text) ==
    IF text = FlaskDockerfile THEN "flask"
    ELSE IF text = DjangoDockerfile THEN "django"
    ELSE IF text = FastAPIDockerfile THEN "fastapi"
    ELSE ""

\* C27: for every requirements listing the Python template chosen by
\* generateFallbackDockerfile is the one of the backend detectProjectType put
\* in the descriptor, also when the listing names several frameworks or a
\* package.json is present as well.
C27_DockerfileFollowsBackend ==
    (dtDockerfile # <<>> /\ dtInfo.requirementsTxt # <<>>
        /\ dtStructure[1].backend \in {"flask", "django", "fastapi"}) =>
        PythonBranch(dtDockerfile[1]) = dtStructure[1].backend

\* The models of a provider
ModelsOf(provider) ==
    IF provider = "openai" THEN {"gpt-4", "gpt-4-turbo", "gpt-3.5-turbo"}
    ELSE IF provider = "gemini" THEN {"gemini-pro"}
    ELSE {}

\* C28: after any sequence of completed configureApiKeys runs the stored model
\* belongs to the stored apiProvider, so callOpenAI is never issued with a
\* Gemini model name nor callGemini with a GPT one.
C28_ModelMatchesProvider ==
    /\ settings.model \in ModelsOf(settings.apiProvider)
    /\ \A i \in 1..Len(cfgCalls) :
          cfgCalls[i].model \in ModelsOf(IF cfgCalls[i].api = "callOpenAI"
                                         THEN "openai" ELSE "gemini")


====
